---- MODULE Spec2Model ----
(***************************************************************************)
(* Model of the market sentiment simulator: Agent (agent.py), Market       *)
(* (market.py) and MarketSimulator (simulator.py).                        *)
(*                                                                         *)
(* Money (cash, prices, cost, revenue) is counted in cents, so the floats  *)
(* of the program become integers; a product with a fractional coefficient *)
(* is rounded down to the cent.  Texts are sequences of one-character      *)
(* strings, so that lower(), find(), split() and `in` are computed.        *)
(***************************************************************************)
EXTENDS Integers, Sequences, FiniteSets, TLC

VARIABLES
    market,              \* MarketSimulator.market, a Market object
    agents,              \* MarketSimulator.agents, a list of Agent objects
    simulation_history,  \* MarketSimulator.simulation_history
    pc,                  \* position inside MarketSimulator.step ("idle" between calls)
    idx,                 \* index of the agent the current loop of step() is at
    news,                \* local `news` of step()
    market_sentiment,    \* local `market_sentiment` of step()
    intentions,          \* local `intentions` of step()
    trades,              \* local `trades` of step()
    steps,               \* step() calls completed since construction/reset
    events,              \* environment outcomes other than the quiet one, since construction/reset
    calls,               \* number of calls made on a stand-alone Agent or Market
    call                 \* the operation that ran last, with its inputs and result

vars == <<market, agents, simulation_history, pc, idx, news, market_sentiment,
          intentions, trades, steps, events, calls, call>>

None == [none |-> TRUE]

-----------------------------------------------------------------------------
(* Bounds of the model *)

\* step() calls since construction or the last reset()
MaxSteps == 2
\* outcomes of the environment in one run of the simulator other than the quiet
\* one (the empty Oracle text, the "calm market" news item, a random draw of 0)
MaxEvents == 2
\* calls made on a stand-alone Agent
MaxAgentCalls == 3
\* calls made on a stand-alone Market
MaxMarketCalls == 3
\* form_intention / execute_trade calls made on an agent with given holdings
MaxIntentionCalls == 2

-----------------------------------------------------------------------------
(* Text: str as a sequence of characters *)

\* the letters str.lower() changes
LowerMap ==
    ("A" :> "a") @@ ("B" :> "b") @@ ("C" :> "c") @@ ("D" :> "d") @@ ("E" :> "e") @@ ("F" :> "f")
    @@ ("G" :> "g") @@ ("H" :> "h") @@ ("I" :> "i") @@ ("J" :> "j") @@ ("K" :> "k") @@ ("L" :> "l")
    @@ ("M" :> "m") @@ ("N" :> "n") @@ ("O" :> "o") @@ ("P" :> "p") @@ ("Q" :> "q") @@ ("R" :> "r")
    @@ ("S" :> "s") @@ ("T" :> "t") @@ ("U" :> "u") @@ ("V" :> "v") @@ ("W" :> "w") @@ ("X" :> "x")
    @@ ("Y" :> "y") @@ ("Z" :> "z")

LowerChar(c) == IF c \in DOMAIN LowerMap THEN LowerMap[c] ELSE c

\* str.lower()
Lower(s) == [i \in 1..Len(s) |-> LowerChar(s[i])]

\* s[i:i+len(pat)] == pat
MatchAt(s, pat, i) ==
    /\ i + Len(pat) - 1 <= Len(s)
    /\ \A k \in 1..Len(pat) : s[i + k - 1] = pat[k]

\* pat in s
Contains(s, pat) ==
    \E i \in 1..(Len(s) - Len(pat) + 1) : \A k \in 1..Len(pat) : s[i + k - 1] = pat[k]

\* s.find(pat), 1-based; 0 when absent (Python's -1)
Find(s, pat) ==
    LET at == {i \in 1..(Len(s) - Len(pat) + 1) :
                    \A k \in 1..Len(pat) : s[i + k - 1] = pat[k]}
    IN  IF at = {} THEN 0 ELSE CHOOSE i \in at : \A j \in at : i <= j

\* s[start:]
From(s, start) == SubSeq(s, start, Len(s))

\* s.split('\n')[0]
FirstLine(s) ==
    IF \E i \in 1..Len(s) : s[i] = "\n"
    THEN SubSeq(s, 1, (CHOOSE i \in 1..Len(s) :
                          s[i] = "\n" /\ \A j \in 1..(i - 1) : s[j] # "\n") - 1)
    ELSE s

\* s.replace(pat, '')
RECURSIVE RemoveAll(_, _)
RemoveAll(s, pat) ==
    IF Len(s) = 0 THEN s
    ELSE IF MatchAt(s, pat, 1)
         THEN RemoveAll(SubSeq(s, Len(pat) + 1, Len(s)), pat)
         ELSE <<s[1]>> \o RemoveAll(Tail(s), pat)

Whitespace == {" ", "\t", "\n", "\r"}

\* s.strip()
Strip(s) ==
    IF \A i \in 1..Len(s) : s[i] \in Whitespace THEN <<>>
    ELSE LET a == CHOOSE i \in 1..Len(s) :
                    s[i] \notin Whitespace /\ \A j \in 1..(i - 1) : s[j] \in Whitespace
             b == CHOOSE i \in 1..Len(s) :
                    s[i] \notin Whitespace /\ \A j \in (i + 1)..Len(s) : s[j] \in Whitespace
         IN  SubSeq(s, a, b)

Digits == <<"0","1","2","3","4","5","6","7","8","9">>

IsDigit(c) == \E d \in 1..10 : Digits[d] = c

DigitVal(c) == (CHOOSE d \in 1..10 : Digits[d] = c) - 1

\* int() of a run of digits
RECURSIVE ToInt(_)
ToInt(ds) ==
    IF Len(ds) = 0 THEN 0
    ELSE 10 * ToInt(SubSeq(ds, 1, Len(ds) - 1)) + DigitVal(ds[Len(ds)])

\* re.findall(r'\d+', s): the first match, <<>> when there is none
FirstNumber(s) ==
    IF \E i \in 1..Len(s) : IsDigit(s[i])
    THEN LET a == CHOOSE i \in 1..Len(s) :
                    IsDigit(s[i]) /\ \A j \in 1..(i - 1) : ~IsDigit(s[j])
             b == CHOOSE i \in a..Len(s) :
                    /\ \A j \in a..i : IsDigit(s[j])
                    /\ (i = Len(s) \/ ~IsDigit(s[i + 1]))
         IN  SubSeq(s, a, b)
    ELSE <<>>

Max(a, b) == IF a >= b THEN a ELSE b
Min(a, b) == IF a <= b THEN a ELSE b

-----------------------------------------------------------------------------
(* Agent (agent.py) *)

AGENT_TYPES == <<"optimistic", "pessimistic", "calm">>

AGENT_NAMES ==
    [optimistic  |-> <<"optimistic investor A", "optimistic investor B">>,
     pessimistic |-> <<"pessimistic investor A", "pessimistic investor B">>,
     calm        |-> <<"calm investor A">>]

\* Agent.__init__ default initial_cash = 10000.0, in cents
DEFAULT_CASH == 1000000

\* the keywords the parsers look for
KwUp          == <<"u","p">>
KwPositive    == <<"p","o","s","i","t","i","v","e">>
KwOptimistic  == <<"o","p","t","i","m","i","s","t","i","c">>
KwDown        == <<"d","o","w","n">>
KwNegative    == <<"n","e","g","a","t","i","v","e">>
KwPessimistic == <<"p","e","s","s","i","m","i","s","t","i","c">>
KwQuantity    == <<"q","u","a","n","t","i","t","y",":">>
KwAction      == <<"a","c","t","i","o","n",":">>
KwReason      == <<"r","e","a","s","o","n",":">>
KwBuy         == <<"b","u","y">>
KwSell        == <<"s","e","l","l">>
LookingOn     == <<"l","o","o","k","i","n","g"," ","o","n">>

\* Agent._initialize_personality: beliefs and desires by type
\* (target_return in percent)
InitialBeliefs(agent_type) ==
    IF agent_type = "optimistic"
    THEN [market_outlook |-> "positive", risk_tolerance |-> "high"]
    ELSE IF agent_type = "pessimistic"
    THEN [market_outlook |-> "negative", risk_tolerance |-> "low"]
    ELSE [market_outlook |-> "neutral", risk_tolerance |-> "medium"]

InitialDesires(agent_type) ==
    IF agent_type = "optimistic" THEN [target_return |-> 15]
    ELSE IF agent_type = "pessimistic" THEN [target_return |-> 5]
    ELSE [target_return |-> 8]

\* Agent.__init__
NewAgent(name, agent_type, initial_cash) ==
    [name          |-> name,
     agent_type    |-> agent_type,
     cash          |-> initial_cash,
     shares        |-> 0,
     beliefs       |-> InitialBeliefs(agent_type),
     desires       |-> InitialDesires(agent_type),
     intentions    |-> <<>>,
     opinions      |-> <<>>,
     trade_history |-> <<>>]

\* the condition of the `if` of _parse_belief_response
UpCue(response) ==
    \/ Contains(response, KwUp)
    \/ Contains(Lower(response), KwPositive)
    \/ Contains(response, KwOptimistic)

\* the condition of the `elif` of _parse_belief_response
DownCue(response) ==
    \/ Contains(response, KwDown)
    \/ Contains(Lower(response), KwNegative)
    \/ Contains(response, KwPessimistic)

\* Seeded fault: a pessimistic agent flips to positive on an up cue
NewOutlookFlip(self, response) ==
    IF UpCue(response)
    THEN IF self.agent_type = "optimistic" THEN "very_positive"
         ELSE IF self.agent_type = "pessimistic" THEN "positive"
         ELSE self.beliefs.market_outlook
    ELSE IF DownCue(response)
    THEN IF self.agent_type = "pessimistic" THEN "very_negative"
         ELSE IF self.agent_type = "optimistic" THEN "slightly_negative"
         ELSE self.beliefs.market_outlook
    ELSE self.beliefs.market_outlook

\* Seeded fault: a down cue takes a very_positive agent back to positive
NewOutlookBack(self, response) ==
    IF UpCue(response)
    THEN IF self.agent_type = "optimistic" THEN "very_positive"
         ELSE IF self.agent_type = "pessimistic" THEN "slightly_positive"
         ELSE self.beliefs.market_outlook
    ELSE IF DownCue(response)
    THEN IF self.agent_type = "pessimistic" THEN "very_negative"
         ELSE IF self.agent_type = "optimistic"
         THEN IF self.beliefs.market_outlook = "very_positive" THEN "positive"
              ELSE "slightly_negative"
         ELSE self.beliefs.market_outlook
    ELSE self.beliefs.market_outlook

\* Seeded fault: the down cue is tested before the up cue
NewOutlookDownFirst(self, response) ==
    IF DownCue(response)
    THEN IF self.agent_type = "pessimistic" THEN "very_negative"
         ELSE IF self.agent_type = "optimistic" THEN "slightly_negative"
         ELSE self.beliefs.market_outlook
    ELSE IF UpCue(response)
    THEN IF self.agent_type = "optimistic" THEN "very_positive"
         ELSE IF self.agent_type = "pessimistic" THEN "slightly_positive"
         ELSE self.beliefs.market_outlook
    ELSE self.beliefs.market_outlook

\* the market_outlook _parse_belief_response leaves
NewOutlook(self, response) ==
    IF UpCue(response)
    THEN IF self.agent_type = "optimistic" THEN "very_positive"
         ELSE IF self.agent_type = "pessimistic" THEN "slightly_positive"
         ELSE self.beliefs.market_outlook
    ELSE IF DownCue(response)
    THEN IF self.agent_type = "pessimistic" THEN "very_negative"
         ELSE IF self.agent_type = "optimistic" THEN "slightly_negative"
         ELSE self.beliefs.market_outlook
    ELSE self.beliefs.market_outlook

\* Seeded fault: the sequence index of an opinion counts from 1
ParseBeliefResponseFromOne(self, response, newsItem) ==
    [self EXCEPT
        !.beliefs.market_outlook = NewOutlook(self, response),
        !.opinions = Append(@, [news      |-> newsItem.content,
                                response  |-> response,
                                timestamp |-> Len(self.opinions) + 1])]

\* Agent._parse_belief_response: the agent after the call
ParseBeliefResponse(self, response, newsItem) ==
    [self EXCEPT
        !.beliefs.market_outlook = NewOutlook(self, response),
        !.opinions = Append(@, [news      |-> newsItem.content,
                                response  |-> response,
                                timestamp |-> Len(self.opinions)])]

\* Agent.update_beliefs, the Oracle having answered `response`
UpdateBeliefs(self, response, newsItem) ==
    ParseBeliefResponse(self, response, newsItem)

\* _parse_intention_response, "Try to extract quantity from response first"
ParsedQuantity(response) ==
    LET response_lower == Lower(response) IN
    IF Contains(response_lower, KwQuantity)
    THEN LET quantity_start == Find(response_lower, KwQuantity)
             quantity_str == Strip(RemoveAll(FirstLine(From(response, quantity_start)),
                                             KwQuantity))
             numbers == FirstNumber(quantity_str)
         IN  IF numbers # <<>> /\ ToInt(numbers) > 0 THEN ToInt(numbers) ELSE 0
    ELSE 0

\* Seeded fault: buy and sell are looked for in the whole response even when
\* there is an action: line
ParsedActionAnywhere(response) ==
    LET response_lower == Lower(response) IN
    IF Contains(response_lower, KwBuy) THEN "buy"
    ELSE IF Contains(response_lower, KwSell) THEN "sell"
    ELSE "hold"

\* _parse_intention_response, "parse action"
ParsedAction(response) ==
    LET response_lower == Lower(response) IN
    IF Contains(response_lower, KwAction)
    THEN LET action_line == FirstLine(From(response_lower, Find(response_lower, KwAction)))
         IN  IF Contains(action_line, KwBuy) THEN "buy"
             ELSE IF Contains(action_line, KwSell) THEN "sell"
             ELSE "hold"
    ELSE IF Contains(response_lower, KwBuy) THEN "buy"
         ELSE IF Contains(response_lower, KwSell) THEN "sell"
         ELSE "hold"

\* the largest power of two strictly below m (m >= 2)
RECURSIVE PowerBelow(_, _)
PowerBelow(m, p) == IF 2 * p < m THEN PowerBelow(m, 2 * p) ELSE p

\* int(x * 0.7) in double precision: 0.7 is stored slightly below 7/10, so when
\* 7x/10 is an integer m the rounded product is m or the double just below it
IntTimes07(x) ==
    IF (7 * x) % 10 # 0 \/ x = 0 THEN (7 * x) \div 10
    ELSE LET m == (7 * x) \div 10
         IN  IF 4 * m <= 7 * PowerBelow(m, 1) THEN m ELSE m - 1

\* int(x * f) for the fractions of the default quantity, f given in tenths
IntTimes(x, tenths) ==
    IF tenths = 7 THEN IntTimes07(x) ELSE (x * tenths) \div 10

BuyTenths(agent_type) ==
    IF agent_type = "optimistic" THEN 8
    ELSE IF agent_type = "pessimistic" THEN 3
    ELSE 5

SellTenths(agent_type) ==
    IF agent_type = "pessimistic" THEN 7
    ELSE IF agent_type = "optimistic" THEN 2
    ELSE 4

\* Seeded fault: the default quantity without its minimum of one share
DefaultQuantityNoMinimum(self, action, current_price) ==
    IF action = "buy"
    THEN LET max_shares == self.cash \div current_price
         IN  IF max_shares > 0
             THEN Min(max_shares, IntTimes(max_shares, BuyTenths(self.agent_type)))
             ELSE 0
    ELSE IF action = "sell"
    THEN IF self.shares > 0
         THEN Min(IntTimes(self.shares, SellTenths(self.agent_type)), self.shares)
         ELSE 0
    ELSE 0

\* _parse_intention_response, "If quantity was not parsed from response"
DefaultQuantity(self, action, current_price) ==
    IF action = "buy"
    THEN LET max_shares == self.cash \div current_price
         IN  IF max_shares > 0
             THEN Max(1, Min(max_shares, IntTimes(max_shares, BuyTenths(self.agent_type))))
             ELSE 0
    ELSE IF action = "sell"
    THEN IF self.shares > 0
         THEN Min(Max(1, IntTimes(self.shares, SellTenths(self.agent_type))), self.shares)
         ELSE 0
    ELSE 0

\* _parse_intention_response, "extract reason"
ParsedReason(response) ==
    IF Contains(Lower(response), KwReason)
    THEN LET reason_start == Find(response, KwReason)
         IN  IF reason_start # 0
             THEN Strip(RemoveAll(FirstLine(From(response, reason_start)), KwReason))
             ELSE LookingOn
    ELSE SubSeq(response, 1, Min(100, Len(response)))

\* Agent._parse_intention_response
ParseIntentionResponse(self, response, current_price) ==
    LET parsed == ParsedQuantity(response)
        action == ParsedAction(response)
    IN  [action   |-> action,
         quantity |-> IF parsed = 0
                      THEN DefaultQuantity(self, action, current_price)
                      ELSE parsed,
         reason   |-> ParsedReason(response),
         response |-> response]

\* Agent.form_intention, the Oracle having answered `response`:
\* the agent after the call (the intention returned is its last one)
FormIntention(self, response, current_price) ==
    [self EXCEPT !.intentions =
        Append(@, ParseIntentionResponse(self, response, current_price))]

\* Seeded fault: a sell is executed without the test quantity <= self.shares
ExecuteTradeUnchecked(self, intention, current_price) ==
    LET action   == intention.action
        quantity == intention.quantity
    IN
    IF action = "buy" /\ quantity > 0 /\ quantity * current_price <= self.cash
    THEN LET cost == quantity * current_price
             trade == [action |-> "buy", quantity |-> quantity,
                       price |-> current_price, cost |-> cost]
         IN  [agent  |-> [self EXCEPT !.cash = @ - cost,
                                      !.shares = @ + quantity,
                                      !.trade_history = Append(@, trade)],
              result |-> trade]
    ELSE IF action = "sell" /\ quantity > 0
    THEN LET revenue == quantity * current_price
             trade == [action |-> "sell", quantity |-> quantity,
                       price |-> current_price, revenue |-> revenue]
         IN  [agent  |-> [self EXCEPT !.cash = @ + revenue,
                                      !.shares = @ - quantity,
                                      !.trade_history = Append(@, trade)],
              result |-> trade]
    ELSE [agent |-> self, result |-> None]

\* Seeded fault: a sell credits the revenue and leaves the shares
ExecuteTradeNoDebit(self, intention, current_price) ==
    LET action   == intention.action
        quantity == intention.quantity
    IN
    IF action = "buy" /\ quantity > 0 /\ quantity * current_price <= self.cash
    THEN LET cost == quantity * current_price
             trade == [action |-> "buy", quantity |-> quantity,
                       price |-> current_price, cost |-> cost]
         IN  [agent  |-> [self EXCEPT !.cash = @ - cost,
                                      !.shares = @ + quantity,
                                      !.trade_history = Append(@, trade)],
              result |-> trade]
    ELSE IF action = "sell" /\ quantity > 0 /\ quantity <= self.shares
    THEN LET revenue == quantity * current_price
             trade == [action |-> "sell", quantity |-> quantity,
                       price |-> current_price, revenue |-> revenue]
         IN  [agent  |-> [self EXCEPT !.cash = @ + revenue,
                                      !.trade_history = Append(@, trade)],
              result |-> trade]
    ELSE [agent |-> self, result |-> None]

\* Seeded fault: a sell larger than the balance is cut down to the balance
ExecuteTradeClamped(self, intention, current_price) ==
    LET action   == intention.action
        quantity == IF intention.action = "sell"
                    THEN Min(intention.quantity, self.shares)
                    ELSE intention.quantity
    IN
    IF action = "buy" /\ quantity > 0 /\ quantity * current_price <= self.cash
    THEN LET cost == quantity * current_price
             trade == [action |-> "buy", quantity |-> quantity,
                       price |-> current_price, cost |-> cost]
         IN  [agent  |-> [self EXCEPT !.cash = @ - cost,
                                      !.shares = @ + quantity,
                                      !.trade_history = Append(@, trade)],
              result |-> trade]
    ELSE IF action = "sell" /\ quantity > 0 /\ quantity <= self.shares
    THEN LET revenue == quantity * current_price
             trade == [action |-> "sell", quantity |-> quantity,
                       price |-> current_price, revenue |-> revenue]
         IN  [agent  |-> [self EXCEPT !.cash = @ + revenue,
                                      !.shares = @ - quantity,
                                      !.trade_history = Append(@, trade)],
              result |-> trade]
    ELSE [agent |-> self, result |-> None]

\* Agent.execute_trade: the agent after the call and the value returned
ExecuteTrade(self, intention, current_price) ==
    LET action   == intention.action
        quantity == intention.quantity
    IN
    IF action = "buy" /\ quantity > 0 /\ quantity * current_price <= self.cash
    THEN LET cost == quantity * current_price
             trade == [action |-> "buy", quantity |-> quantity,
                       price |-> current_price, cost |-> cost]
         IN  [agent  |-> [self EXCEPT !.cash = @ - cost,
                                      !.shares = @ + quantity,
                                      !.trade_history = Append(@, trade)],
              result |-> trade]
    ELSE IF action = "sell" /\ quantity > 0 /\ quantity <= self.shares
    THEN LET revenue == quantity * current_price
             trade == [action |-> "sell", quantity |-> quantity,
                       price |-> current_price, revenue |-> revenue]
         IN  [agent  |-> [self EXCEPT !.cash = @ + revenue,
                                      !.shares = @ - quantity,
                                      !.trade_history = Append(@, trade)],
              result |-> trade]
    ELSE [agent |-> self, result |-> None]

\* Agent.get_portfolio_value
PortfolioValue(self, current_price) == self.cash + self.shares * current_price

\* Agent.get_sentiment_score, in hundredths
SentimentScore(self) ==
    LET outlook == self.beliefs.market_outlook IN
    CASE outlook = "very_positive"     -> 90
      [] outlook = "positive"          -> 60
      [] outlook = "slightly_positive" -> 30
      [] outlook = "neutral"           -> 0
      [] outlook = "slightly_negative" -> -30
      [] outlook = "negative"          -> -60
      [] outlook = "very_negative"     -> -90
      [] OTHER                         -> 0

-----------------------------------------------------------------------------
(* Market (market.py) *)

\* config.INITIAL_STOCK_PRICE = 100.0, in cents
INITIAL_STOCK_PRICE == 10000

\* news templates: the first template of each pool stands for the pool
positive_news_templates ==
    {"The company released better-than-expected financial results, with net profit rising 30% year-on-year."}
negative_news_templates ==
    {"The company's financial report fell short of expectations, with net profit dropping by 20% year-on-year."}
neutral_news_templates ==
    {"The company released a routine announcement, with no major changes."}
CalmNews == "Today's market is calm, no major news"

\* Market.__init__
NewMarket(initial_price) ==
    [initial_price     |-> initial_price,
     current_price     |-> initial_price,
     price_history     |-> <<initial_price>>,
     news_history      |-> <<>>,
     trades_history    |-> <<>>,
     sentiment_history |-> <<>>,
     timestep          |-> 0,
     base_value        |-> initial_price]

\* the (content, sentiment) pairs the random choices of generate_news can give
NewsChoices ==
    {[content |-> c, sentiment |-> "positive"] : c \in positive_news_templates}
    \cup {[content |-> c, sentiment |-> "negative"] : c \in negative_news_templates}
    \cup {[content |-> c, sentiment |-> "neutral"] : c \in neutral_news_templates}
    \cup {[content |-> CalmNews, sentiment |-> "neutral"]}

\* Market.generate_news, its random choices having given `choice`:
\* the news item returned
NewsItem(m, choice) ==
    [content |-> choice.content, sentiment |-> choice.sentiment, timestamp |-> m.timestep]

\* Market.generate_news: the market after the call
GenerateNews(m, choice) ==
    [m EXCEPT !.news_history = Append(@, NewsItem(m, choice))]

\* 0.3 * initial_price, the lowest price calculate_price sets
PriceFloor(m) == (m.initial_price * 3) \div 10

\* Seeded fault: the price is not held at the floor
NewPriceNoFloor(m, net_order_flow, news_impact, draw) ==
    LET random_walk       == (draw * m.current_price) \div 1000
        order_impact      == net_order_flow * 10
        news_impact_value == (news_impact * m.current_price * 5) \div 1000
    IN  m.current_price + random_walk + order_impact + news_impact_value

\* Seeded fault: every call adds a cent to the price
NewPriceDrift(m, net_order_flow, news_impact, draw) ==
    LET random_walk       == (draw * m.current_price) \div 1000
        order_impact      == net_order_flow * 10
        news_impact_value == (news_impact * m.current_price * 5) \div 1000
        price_change      == random_walk + order_impact + news_impact_value + 1
        new_price         == m.current_price + price_change
    IN  Max(new_price, PriceFloor(m))

\* Market.calculate_price: the new price.  news_impact is in tenths and
\* draw, the value of np.random.normal(0, 0.01), in thousandths.
NewPrice(m, net_order_flow, news_impact, draw) ==
    LET random_walk       == (draw * m.current_price) \div 1000
        order_impact      == net_order_flow * 10
        news_impact_value == (news_impact * m.current_price * 5) \div 1000
        price_change      == random_walk + order_impact + news_impact_value
        new_price         == m.current_price + price_change
    IN  Max(new_price, PriceFloor(m))

\* Market.calculate_price: the market after the call
CalculatePrice(m, net_order_flow, news_impact, draw) ==
    LET new_price == NewPrice(m, net_order_flow, news_impact, draw)
    IN  [m EXCEPT !.current_price = new_price,
                  !.price_history = Append(@, new_price)]

\* Market.get_news_impact_score, in tenths
NewsImpactScore(newsItem) ==
    CASE newsItem.sentiment = "positive" -> 7
      [] newsItem.sentiment = "negative" -> -7
      [] newsItem.sentiment = "neutral"  -> 0
      [] OTHER                           -> 0

\* Seeded fault: the sells are left out of the net order flow
RECURSIVE NetOrderFlowBuysOnly(_)
NetOrderFlowBuysOnly(ts) ==
    IF ts = <<>> THEN 0
    ELSE LET rest == NetOrderFlowBuysOnly(SubSeq(ts, 1, Len(ts) - 1))
             trade == ts[Len(ts)]
         IN  IF trade.action = "buy" THEN rest + trade.quantity ELSE rest

\* Seeded fault: a sell is added to the net order flow
RECURSIVE NetOrderFlowAdded(_)
NetOrderFlowAdded(ts) ==
    IF ts = <<>> THEN 0
    ELSE LET rest == NetOrderFlowAdded(SubSeq(ts, 1, Len(ts) - 1))
             trade == ts[Len(ts)]
         IN  IF trade.action = "buy" THEN rest + trade.quantity
             ELSE IF trade.action = "sell" THEN rest + trade.quantity
             ELSE rest

\* Market.update, "calculate net order flow"
RECURSIVE NetOrderFlow(_)
NetOrderFlow(ts) ==
    IF ts = <<>> THEN 0
    ELSE LET rest == NetOrderFlow(SubSeq(ts, 1, Len(ts) - 1))
             trade == ts[Len(ts)]
         IN  IF trade.action = "buy" THEN rest + trade.quantity
             ELSE IF trade.action = "sell" THEN rest - trade.quantity
             ELSE rest

\* Seeded fault: update does not increment timestep
MarketUpdateNoTick(m, ts, newsItem, draw) ==
    LET net_order_flow == NetOrderFlow(ts)
        priced == CalculatePrice(m, net_order_flow, NewsImpactScore(newsItem), draw)
    IN  [priced EXCEPT
            !.trades_history = Append(@, [trades         |-> ts,
                                          net_order_flow |-> net_order_flow,
                                          timestamp      |-> m.timestep])]

\* Market.update: the market after the call
MarketUpdate(m, ts, newsItem, draw) ==
    LET net_order_flow == NetOrderFlow(ts)
        priced == CalculatePrice(m, net_order_flow, NewsImpactScore(newsItem), draw)
    IN  [priced EXCEPT
            !.trades_history = Append(@, [trades         |-> ts,
                                          net_order_flow |-> net_order_flow,
                                          timestamp      |-> m.timestep]),
            !.timestep = @ + 1]

-----------------------------------------------------------------------------
(* MarketSimulator (simulator.py) *)

\* the agents of one type, in the order of AGENT_NAMES
AgentsOfType(agent_type) ==
    [i \in 1..Len(AGENT_NAMES[agent_type]) |->
        NewAgent(AGENT_NAMES[agent_type][i], agent_type, DEFAULT_CASH)]

\* MarketSimulator._create_agents, self.agents being empty
CreateAgents ==
    AgentsOfType(AGENT_TYPES[1]) \o AgentsOfType(AGENT_TYPES[2])
        \o AgentsOfType(AGENT_TYPES[3])

\* the scores of the agents of one type, summed, and their number
RECURSIVE ScoreSum(_, _)
ScoreSum(as, agent_type) ==
    IF as = <<>> THEN 0
    ELSE ScoreSum(Tail(as), agent_type)
         + (IF Head(as).agent_type = agent_type THEN SentimentScore(Head(as)) ELSE 0)

TypeCount(as, agent_type) ==
    Cardinality({i \in 1..Len(as) : as[i].agent_type = agent_type})

\* Seeded fault: the mean is taken over the agents of all types
MeanScoreOfAll(as, agent_type) ==
    IF TypeCount(as, agent_type) > 0
    THEN (ScoreSum(as, "optimistic") + ScoreSum(as, "pessimistic") + ScoreSum(as, "calm"))
            \div Len(as)
    ELSE 0

\* np.mean of the scores of one type, 0.0 when there are none (in hundredths)
MeanScore(as, agent_type) ==
    IF TypeCount(as, agent_type) > 0
    THEN ScoreSum(as, agent_type) \div TypeCount(as, agent_type)
    ELSE 0

\* MarketSimulator._calculate_market_sentiment: the value returned
MarketSentiment(as) ==
    [optimistic  |-> MeanScore(as, "optimistic"),
     pessimistic |-> MeanScore(as, "pessimistic"),
     calm        |-> MeanScore(as, "calm")]

\* MarketSimulator._get_agent_states
AgentStates(as, current_price) ==
    [i \in 1..Len(as) |->
        [name            |-> as[i].name,
         type            |-> as[i].agent_type,
         cash            |-> as[i].cash,
         shares          |-> as[i].shares,
         portfolio_value |-> PortfolioValue(as[i], current_price),
         sentiment_score |-> SentimentScore(as[i]),
         market_outlook  |-> as[i].beliefs.market_outlook]]

-----------------------------------------------------------------------------
(* The environment: Oracle texts and random draws *)

Empty == <<>>

TxtNegative == <<"n","e","g","a","t","i","v","e">>
TxtBuy20 ==
    <<"a","c","t","i","o","n",":"," ","b","u","y","\n","q","u","a","n","t","i","t","y",":"," ","2","0","\n","r","e","a","s","o","n",":"," ","t","e","s","t">>
TxtSell100 ==
    <<"a","c","t","i","o","n",":"," ","s","e","l","l","\n","q","u","a","n","t","i","t","y",":"," ","1","0","0","\n","r","e","a","s","o","n",":"," ","t","e","s","t">>
TxtBuy150 ==
    <<"a","c","t","i","o","n",":"," ","b","u","y","\n","q","u","a","n","t","i","t","y",":"," ","1","5","0">>
TxtBuy == <<"b","u","y">>
TxtSell == <<"s","e","l","l">>

TxtBuy90 ==
    <<"a","c","t","i","o","n",":"," ","b","u","y","\n","q","u","a","n","t","i","t","y",":"," ","9","0">>
TxtBuy100 ==
    <<"a","c","t","i","o","n",":"," ","b","u","y","\n","q","u","a","n","t","i","t","y",":"," ","1","0","0">>
TxtBuy99 ==
    <<"a","c","t","i","o","n",":"," ","b","u","y","\n","q","u","a","n","t","i","t","y",":"," ","9","9">>
TxtBuy1 ==
    <<"a","c","t","i","o","n",":"," ","b","u","y","\n","q","u","a","n","t","i","t","y",":"," ","1">>
TxtBuyZero ==
    <<"a","c","t","i","o","n",":"," ","b","u","y","\n","q","u","a","n","t","i","t","y",":"," ","0">>
TxtSellBuy == <<"s","e","l","l"," ","o","r"," ","b","u","y">>
TxtHoldNoBuy ==
    <<"a","c","t","i","o","n",":"," ","h","o","l","d","\n","r","e","a","s","o","n",":"," ","d","o"," ","n","o","t"," ","b","u","y">>
TxtSellLine ==
    <<"a","c","t","i","o","n",":"," ","s","e","l","l","\n","b","u","y"," ","l","a","t","e","r">>
TxtReasonCap == <<"R","e","a","s","o","n",":"," ","w","a","i","t">>
\* a text of 104 characters: "buy " repeated
TxtLong ==
    <<"b","u","y"," ","b","u","y"," ","b","u","y"," ","b","u","y"," ","b","u","y"," ","b","u","y"," ","b","u","y"," ","b","u","y"," ","b","u","y"," ","b","u","y"," ","b","u","y"," ","b","u","y"," ","b","u","y"," ","b","u","y"," ","b","u","y"," ","b","u","y"," ","b","u","y"," ","b","u","y"," ","b","u","y"," ","b","u","y"," ","b","u","y"," ","b","u","y"," ","b","u","y"," ","b","u","y"," ","b","u","y"," ","b","u","y"," ">>

TxtUp == <<"u","p">>
TxtUpUpper == <<"U","P">>
TxtDown == <<"d","o","w","n">>
TxtDownUp == <<"d","o","w","n"," ","u","p">>
TxtUpDown == <<"u","p"," ","t","h","e","n"," ","d","o","w","n">>
TxtPositiveCap == <<"P","o","s","i","t","i","v","e">>
TxtNegativeUpper == <<"N","E","G","A","T","I","V","E">>
TxtOptimisticCap == <<"O","p","t","i","m","i","s","t","i","c">>

\* the texts of LLMClient._mock_response
MockBelief ==
    <<"B","a","s","e","d"," ","o","n"," ","c","u","r","r","e","n","t"," ","i","n","f","o","r","m","a","t","i","o","n",","," ","I"," ","t","h","i","n","k"," ","t","h","i","s"," ","i","s"," ","a"," ","g","o","o","d"," ","t","i","m","e"," ","t","o"," ","b","u","y","."," ","T","h","e"," ","m","a","r","k","e","t"," ","o","u","t","l","o","o","k"," ","i","s"," ","p","o","s","i","t","i","v","e",".">>
MockOptimisticBuy ==
    <<"a","c","t","i","o","n",":"," ","b","u","y","\n","q","u","a","n","t","i","t","y",":"," ","5","0","\n","r","e","a","s","o","n",":"," ","I"," ","a","m"," ","o","p","t","i","m","i","s","t","i","c"," ","a","b","o","u","t"," ","t","h","e"," ","m","a","r","k","e","t"," ","a","n","d"," ","b","e","l","i","e","v","e"," ","t","h","e"," ","p","r","i","c","e"," ","w","i","l","l"," ","r","i","s","e",".">>
MockOptimisticHold ==
    <<"a","c","t","i","o","n",":"," ","h","o","l","d","\n","q","u","a","n","t","i","t","y",":"," ","0","\n","r","e","a","s","o","n",":"," ","I"," ","w","i","l","l"," ","w","a","i","t"," ","f","o","r"," ","a"," ","b","e","t","t","e","r"," ","e","n","t","r","y"," ","p","o","i","n","t",".">>
MockPessimisticNoShares ==
    <<"a","c","t","i","o","n",":"," ","h","o","l","d","\n","q","u","a","n","t","i","t","y",":"," ","0","\n","r","e","a","s","o","n",":"," ","I"," ","a","m"," ","c","a","u","t","i","o","u","s"," ","a","b","o","u","t"," ","t","h","e"," ","m","a","r","k","e","t"," ","b","u","t"," ","h","a","v","e"," ","n","o"," ","s","h","a","r","e","s"," ","t","o"," ","s","e","l","l",".">>
MockPessimisticSell ==
    <<"a","c","t","i","o","n",":"," ","s","e","l","l","\n","q","u","a","n","t","i","t","y",":"," ","3","0","\n","r","e","a","s","o","n",":"," ","I"," ","a","m"," ","p","e","s","s","i","m","i","s","t","i","c"," ","a","b","o","u","t"," ","t","h","e"," ","m","a","r","k","e","t"," ","a","n","d"," ","w","a","n","t"," ","t","o"," ","r","e","d","u","c","e"," ","r","i","s","k",".">>
MockPessimisticHold ==
    <<"a","c","t","i","o","n",":"," ","h","o","l","d","\n","q","u","a","n","t","i","t","y",":"," ","0","\n","r","e","a","s","o","n",":"," ","I"," ","w","i","l","l"," ","w","a","i","t"," ","a","n","d"," ","s","e","e",".">>
MockCalmBuy ==
    <<"a","c","t","i","o","n",":"," ","b","u","y","\n","q","u","a","n","t","i","t","y",":"," ","3","0","\n","r","e","a","s","o","n",":"," ","B","a","s","e","d"," ","o","n"," ","a","n","a","l","y","s","i","s",","," ","t","h","i","s"," ","s","e","e","m","s"," ","l","i","k","e"," ","a"," ","r","e","a","s","o","n","a","b","l","e"," ","e","n","t","r","y"," ","p","o","i","n","t",".">>
MockCalmSell ==
    <<"a","c","t","i","o","n",":"," ","s","e","l","l","\n","q","u","a","n","t","i","t","y",":"," ","2","0","\n","r","e","a","s","o","n",":"," ","T","a","k","i","n","g"," ","s","o","m","e"," ","p","r","o","f","i","t","s"," ","b","a","s","e","d"," ","o","n"," ","c","u","r","r","e","n","t"," ","v","a","l","u","a","t","i","o","n",".">>
MockCalmHold ==
    <<"a","c","t","i","o","n",":"," ","h","o","l","d","\n","q","u","a","n","t","i","t","y",":"," ","0","\n","r","e","a","s","o","n",":"," ","W","a","i","t","i","n","g"," ","f","o","r"," ","m","o","r","e"," ","c","l","a","r","i","t","y"," ","b","e","f","o","r","e"," ","m","a","k","i","n","g"," ","a"," ","d","e","c","i","s","i","o","n",".">>

\* _mock_response for the prompt of update_beliefs: the prompt always has the
\* word "optimistic" (its market sentiment line), so the first text is returned
MockBeliefResponse == MockBelief

\* _mock_response for the prompt of form_intention, which names the agent's
\* type and shares; draws are the values of random.random(), in tenths
MockIntentionResponse(self, draws) ==
    IF self.agent_type = "optimistic"
    THEN IF draws[1] < 7 THEN MockOptimisticBuy ELSE MockOptimisticHold
    ELSE IF self.agent_type = "pessimistic"
    THEN IF self.shares = 0 THEN MockPessimisticNoShares
         ELSE IF draws[1] < 6 THEN MockPessimisticSell
         ELSE MockPessimisticHold
    ELSE IF draws[1] < 5 THEN MockCalmBuy
         ELSE IF self.shares # 0 /\ draws[2] < 3 THEN MockCalmSell
         ELSE MockCalmHold

\* values of the random.random() calls of _mock_response, in tenths
MockDraws == {<<2, 8>>, <<8, 2>>}

\* what chat_comp.do does: it returns a text, or it raises (an error, a timeout)
Returned(text) == [error |-> FALSE, result |-> text, draws |-> <<0, 0>>]
Raised(draws) == [error |-> TRUE, result |-> Empty, draws |-> draws]

\* LLMClient.generate_response: the text handed to the agent
GenerateResponse(outcome, mock) == IF outcome.error THEN mock ELSE outcome.result

\* the texts the Oracle answers a belief prompt of step() with
BeliefReplies == {Empty, TxtNegative}

\* the texts the Oracle answers an intention prompt of step() with
IntentionReplies == {Empty, TxtBuy20}

\* what the Oracle does when step() consults it
BeliefOutcomes == {Returned(text) : text \in BeliefReplies} \cup {Raised(<<0, 0>>)}
IntentionOutcomes ==
    {Returned(text) : text \in IntentionReplies} \cup {Raised(draws) : draws \in MockDraws}

\* values of np.random.normal(0, 0.01), in thousandths
RandomDraws == {-10, 0}

-----------------------------------------------------------------------------
(* The simulator: MarketSimulator.step, phase by phase, and reset *)

Call(op, agent, arg, result) == [op |-> op, agent |-> agent, arg |-> arg, result |-> result]

\* what an outcome of the environment costs of the bound MaxEvents
Answered(outcome) == IF ~outcome.error /\ outcome.result = Empty THEN 0 ELSE 1
Reported(choice) == IF choice.content = CalmNews THEN 0 ELSE 1
Drawn(draw) == IF draw = 0 THEN 0 ELSE 1

\* MarketSimulator.__init__(INITIAL_STOCK_PRICE)
Init ==
    /\ market = NewMarket(INITIAL_STOCK_PRICE)
    /\ agents = CreateAgents
    /\ simulation_history = <<>>
    /\ pc = "idle"
    /\ idx = 0
    /\ news = None
    /\ market_sentiment = None
    /\ intentions = <<>>
    /\ trades = <<>>
    /\ steps = 0
    /\ events = 0
    /\ calls = 0
    /\ call = Call("__init__", 0, None, None)

\* Seeded fault: the agents are handed the initial price
TradingPriceInitial == market.initial_price

\* self.market.current_price, the price step() hands to update_beliefs,
\* form_intention and execute_trade
TradingPrice == market.current_price

\* step(), 1. generate news
StepGenerateNews ==
    /\ pc = "idle"
    /\ steps < MaxSteps
    /\ \E choice \in NewsChoices :
        /\ events + Reported(choice) <= MaxEvents
        /\ events' = events + Reported(choice)
        /\ news' = NewsItem(market, choice)
        /\ market' = GenerateNews(market, choice)
    /\ pc' = "sentiment"
    /\ call' = Call("generate_news", 0, None, news')
    /\ UNCHANGED <<agents, simulation_history, idx, market_sentiment, intentions,
                   trades, steps, calls>>

\* step(), 2. calculate current market sentiment
StepMarketSentiment ==
    /\ pc = "sentiment"
    /\ market_sentiment' = MarketSentiment(agents)
    /\ market' = [market EXCEPT !.sentiment_history = Append(@, market_sentiment')]
    /\ pc' = "beliefs"
    /\ idx' = 1
    /\ call' = Call("_calculate_market_sentiment", 0, None, market_sentiment')
    /\ UNCHANGED <<agents, simulation_history, news, intentions, trades, steps, events,
                   calls>>

\* Seeded fault: the belief loop is left after its first pass
StepUpdateBeliefsFirstOnly ==
    /\ pc = "beliefs"
    /\ \E outcome \in BeliefOutcomes :
        LET response == GenerateResponse(outcome, MockBeliefResponse)
        IN  /\ events + Answered(outcome) <= MaxEvents
            /\ events' = events + Answered(outcome)
            /\ agents' = [agents EXCEPT ![idx] = UpdateBeliefs(@, response, news)]
            /\ call' = Call("update_beliefs", idx,
                            [response |-> response, news |-> news, price |-> TradingPrice,
                             error |-> outcome.error],
                            None)
    /\ idx' = 1
    /\ pc' = "intentions"
    /\ UNCHANGED <<market, simulation_history, news, market_sentiment, intentions,
                   trades, steps, calls>>

\* step(), 3. agents update beliefs: one pass of the loop
StepUpdateBeliefs ==
    /\ pc = "beliefs"
    /\ \E outcome \in BeliefOutcomes :
        LET response == GenerateResponse(outcome, MockBeliefResponse)
        IN  /\ events + Answered(outcome) <= MaxEvents
            /\ events' = events + Answered(outcome)
            /\ agents' = [agents EXCEPT ![idx] = UpdateBeliefs(@, response, news)]
            /\ call' = Call("update_beliefs", idx,
                            [response |-> response, news |-> news, price |-> TradingPrice,
                             error |-> outcome.error],
                            None)
    /\ IF idx < Len(agents)
       THEN idx' = idx + 1 /\ pc' = pc
       ELSE idx' = 1 /\ pc' = "intentions"
    /\ UNCHANGED <<market, simulation_history, news, market_sentiment, intentions,
                   trades, steps, calls>>

\* Seeded fault: an error of the Oracle is not caught and ends step()
StepFormIntentionRaises ==
    /\ pc = "intentions"
    /\ \E outcome \in IntentionOutcomes :
        LET response == GenerateResponse(outcome,
                                         MockIntentionResponse(agents[idx], outcome.draws))
        IN  /\ events + Answered(outcome) <= MaxEvents
            /\ events' = events + Answered(outcome)
            /\ IF outcome.error
               THEN /\ call' = Call("form_intention", idx,
                                    [response |-> Empty, price |-> TradingPrice,
                                     error |-> TRUE],
                                    None)
                    /\ pc' = "idle"
                    /\ idx' = 0
                    /\ news' = None
                    /\ market_sentiment' = None
                    /\ intentions' = <<>>
                    /\ steps' = steps + 1
                    /\ UNCHANGED agents
               ELSE /\ agents' = [agents EXCEPT ![idx] =
                                    FormIntention(@, response, TradingPrice)]
                    /\ LET intention == agents'[idx].intentions[Len(agents'[idx].intentions)]
                       IN  /\ intentions' = Append(intentions,
                                                   [agent_name |-> agents[idx].name,
                                                    agent_type |-> agents[idx].agent_type,
                                                    intention  |-> intention])
                           /\ call' = Call("form_intention", idx,
                                           [response |-> response, price |-> TradingPrice,
                                            error |-> outcome.error],
                                           intention)
                    /\ IF idx < Len(agents)
                       THEN idx' = idx + 1 /\ pc' = pc
                       ELSE idx' = 1 /\ pc' = "trades"
                    /\ UNCHANGED <<news, market_sentiment, steps>>
    /\ UNCHANGED <<market, simulation_history, trades, calls>>

\* step(), 4. agents form intentions: one pass of the loop
StepFormIntention ==
    /\ pc = "intentions"
    /\ \E outcome \in IntentionOutcomes :
        LET response == GenerateResponse(outcome,
                                         MockIntentionResponse(agents[idx], outcome.draws))
        IN  /\ events + Answered(outcome) <= MaxEvents
            /\ events' = events + Answered(outcome)
            /\ agents' = [agents EXCEPT ![idx] = FormIntention(@, response, TradingPrice)]
            /\ LET intention == agents'[idx].intentions[Len(agents'[idx].intentions)]
               IN  /\ intentions' = Append(intentions,
                                           [agent_name |-> agents[idx].name,
                                            agent_type |-> agents[idx].agent_type,
                                            intention  |-> intention])
                   /\ call' = Call("form_intention", idx,
                                   [response |-> response, price |-> TradingPrice,
                                    error |-> outcome.error],
                                   intention)
    /\ IF idx < Len(agents)
       THEN idx' = idx + 1 /\ pc' = pc
       ELSE idx' = 1 /\ pc' = "trades"
    /\ UNCHANGED <<market, simulation_history, news, market_sentiment, trades, steps,
                   calls>>

\* trade['agent_name'] = ...; trade['agent_type'] = ... on the record
\* execute_trade returned
Tagged(trade, self) ==
    IF trade.action = "buy"
    THEN [action |-> trade.action, quantity |-> trade.quantity, price |-> trade.price,
          cost |-> trade.cost, agent_name |-> self.name, agent_type |-> self.agent_type]
    ELSE [action |-> trade.action, quantity |-> trade.quantity, price |-> trade.price,
          revenue |-> trade.revenue, agent_name |-> self.name,
          agent_type |-> self.agent_type]

\* Seeded fault: a sell that was executed is not collected in `trades`
StepExecuteTradeUntracked ==
    /\ pc = "trades"
    /\ IF agents[idx].intentions # <<>>
       THEN LET self == agents[idx]
                intention == self.intentions[Len(self.intentions)]
                arg == [intention |-> intention, price |-> TradingPrice]
                done == ExecuteTrade(self, intention, TradingPrice)
            IN  IF done.result # None
                THEN LET trade == Tagged(done.result, self)
                     IN  /\ agents' = [agents EXCEPT ![idx] =
                                [done.agent EXCEPT
                                    !.trade_history[Len(done.agent.trade_history)] = trade]]
                         /\ trades' = IF trade.action = "sell" THEN trades
                                      ELSE Append(trades, trade)
                         /\ call' = Call("execute_trade", idx, arg, trade)
                ELSE /\ agents' = [agents EXCEPT ![idx] = done.agent]
                     /\ trades' = trades
                     /\ call' = Call("execute_trade", idx, arg, None)
       ELSE /\ UNCHANGED <<agents, trades>>
            /\ call' = Call("no_intention", idx, None, None)
    /\ IF idx < Len(agents)
       THEN idx' = idx + 1 /\ pc' = pc
       ELSE idx' = 0 /\ pc' = "update"
    /\ UNCHANGED <<market, simulation_history, news, market_sentiment, intentions,
                   steps, events, calls>>

\* step(), 5. agents execute trades: one pass of the loop.  The record tagged
\* is the one execute_trade appended to the agent's trade_history.
StepExecuteTrade ==
    /\ pc = "trades"
    /\ IF agents[idx].intentions # <<>>
       THEN LET self == agents[idx]
                intention == self.intentions[Len(self.intentions)]
                arg == [intention |-> intention, price |-> TradingPrice]
                done == ExecuteTrade(self, intention, TradingPrice)
            IN  IF done.result # None
                THEN LET trade == Tagged(done.result, self)
                     IN  /\ agents' = [agents EXCEPT ![idx] =
                                [done.agent EXCEPT
                                    !.trade_history[Len(done.agent.trade_history)] = trade]]
                         /\ trades' = Append(trades, trade)
                         /\ call' = Call("execute_trade", idx, arg, trade)
                ELSE /\ agents' = [agents EXCEPT ![idx] = done.agent]
                     /\ trades' = trades
                     /\ call' = Call("execute_trade", idx, arg, None)
       ELSE /\ UNCHANGED <<agents, trades>>
            /\ call' = Call("no_intention", idx, None, None)
    /\ IF idx < Len(agents)
       THEN idx' = idx + 1 /\ pc' = pc
       ELSE idx' = 0 /\ pc' = "update"
    /\ UNCHANGED <<market, simulation_history, news, market_sentiment, intentions,
                   steps, events, calls>>

\* step(), 6. update market
StepMarketUpdate ==
    /\ pc = "update"
    /\ \E draw \in RandomDraws :
        /\ events + Drawn(draw) <= MaxEvents
        /\ events' = events + Drawn(draw)
        /\ market' = MarketUpdate(market, trades, news, draw)
        /\ call' = Call("update", 0, [trades |-> trades, news |-> news, draw |-> draw],
                        None)
    /\ pc' = "record"
    /\ UNCHANGED <<agents, simulation_history, idx, news, market_sentiment, intentions,
                   trades, steps, calls>>

\* Seeded fault: the snapshot's timestep and price are read before Market.update
StepDataBeforeUpdate ==
    [timestep         |-> market.timestep - 1,
     price            |-> market.price_history[Len(market.price_history) - 1],
     news             |-> news,
     market_sentiment |-> market_sentiment,
     intentions       |-> intentions,
     trades           |-> trades,
     agent_states     |-> AgentStates(agents, market.current_price)]

\* step(), 7. record history
StepData ==
    [timestep         |-> market.timestep,
     price            |-> market.current_price,
     news             |-> news,
     market_sentiment |-> market_sentiment,
     intentions       |-> intentions,
     trades           |-> trades,
     agent_states     |-> AgentStates(agents, market.current_price)]

\* Seeded fault: recording a step refreshes agent_states in every snapshot
StepRecordRefresh ==
    /\ pc = "record"
    /\ simulation_history' =
        Append([k \in 1..Len(simulation_history) |->
                    [simulation_history[k] EXCEPT
                        !.agent_states = AgentStates(agents, market.current_price)]],
               StepData)
    /\ pc' = "idle"
    /\ news' = None
    /\ market_sentiment' = None
    /\ intentions' = <<>>
    /\ trades' = <<>>
    /\ steps' = steps + 1
    /\ call' = Call("step", 0, None, StepData)
    /\ UNCHANGED <<market, agents, idx, events, calls>>

StepRecord ==
    /\ pc = "record"
    /\ simulation_history' = Append(simulation_history, StepData)
    /\ pc' = "idle"
    /\ news' = None
    /\ market_sentiment' = None
    /\ intentions' = <<>>
    /\ trades' = <<>>
    /\ steps' = steps + 1
    /\ call' = Call("step", 0, None, StepData)
    /\ UNCHANGED <<market, agents, idx, events, calls>>

\* MarketSimulator.get_statistics: total_trades, the larger of the trades
\* counted over the snapshots and over the agents' trade logs
RECURSIVE SnapshotTrades(_)
SnapshotTrades(history) ==
    IF history = <<>> THEN 0
    ELSE Len(Head(history).trades) + SnapshotTrades(Tail(history))

RECURSIVE AgentTrades(_)
AgentTrades(as) ==
    IF as = <<>> THEN 0
    ELSE Len(Head(as).trade_history) + AgentTrades(Tail(as))

TotalTrades == Max(SnapshotTrades(simulation_history), AgentTrades(agents))

\* Seeded fault: reset() without `self.agents = []`
ResetKeepAgents ==
    /\ pc = "idle"
    /\ market' = NewMarket(market.initial_price)
    /\ agents' = agents \o CreateAgents
    /\ simulation_history' = <<>>
    /\ steps' = 0
    /\ events' = 0
    /\ call' = Call("reset", 0, [discarded |-> Len(simulation_history)], None)
    /\ UNCHANGED <<pc, idx, news, market_sentiment, intentions, trades, calls>>

\* MarketSimulator.reset
Reset ==
    /\ pc = "idle"
    /\ market' = NewMarket(market.initial_price)
    /\ agents' = CreateAgents
    /\ simulation_history' = <<>>
    /\ steps' = 0
    /\ events' = 0
    /\ call' = Call("reset", 0, [discarded |-> Len(simulation_history)], None)
    /\ UNCHANGED <<pc, idx, news, market_sentiment, intentions, trades, calls>>

Next ==
    \/ StepGenerateNews
    \/ StepMarketSentiment
    \/ StepUpdateBeliefs
    \/ StepFormIntention
    \/ StepExecuteTrade
    \/ StepMarketUpdate
    \/ StepRecord
    \/ Reset

Spec == Init /\ [][Next]_vars

\* step() is straight-line code with loops over the agents: once called, it
\* runs every phase; when step() and reset() are called is up to the caller
StepRuns ==
    /\ WF_vars(StepMarketSentiment)
    /\ WF_vars(StepUpdateBeliefs)
    /\ WF_vars(StepFormIntention)
    /\ WF_vars(StepExecuteTrade)
    /\ WF_vars(StepMarketUpdate)
    /\ WF_vars(StepRecord)

FairSpec == Spec /\ StepRuns

-----------------------------------------------------------------------------
(* A stand-alone Agent: update_beliefs, form_intention and execute_trade     *)
(* called directly, in any order, with any of the texts below                *)

\* the texts the Oracle answers a belief prompt of the stand-alone agent with
AgentBeliefReplies ==
    {Empty, TxtUp, TxtUpUpper, TxtDown, TxtDownUp, TxtUpDown, TxtPositiveCap,
     TxtNegativeUpper, TxtOptimisticCap}

\* the texts the Oracle answers an intention prompt of the stand-alone agent with
AgentIntentionReplies ==
    {Empty, TxtBuy20, TxtSell100, TxtBuy150, TxtBuy, TxtSell}

\* current_price of the calls on the stand-alone agent
AgentPrices == {INITIAL_STOCK_PRICE}

\* the news item handed to update_beliefs
AgentNews == [content |-> CalmNews, sentiment |-> "neutral", timestamp |-> 0]

\* Agent(name, agent_type) of each type, fresh or after a buy of 20 at 100.00
FreshAgent(agent_type) == NewAgent(AGENT_NAMES[agent_type][1], agent_type, DEFAULT_CASH)

AfterBuy(self) ==
    LET formed == FormIntention(self, TxtBuy20, INITIAL_STOCK_PRICE)
    IN  ExecuteTrade(formed, formed.intentions[1], INITIAL_STOCK_PRICE).agent

InitAgent ==
    /\ \E t \in 1..Len(AGENT_TYPES) :
        \/ agents = <<FreshAgent(AGENT_TYPES[t])>>
        \/ agents = <<AfterBuy(FreshAgent(AGENT_TYPES[t]))>>
    /\ \E price \in AgentPrices : market = NewMarket(price)
    /\ simulation_history = <<>>
    /\ pc = "idle"
    /\ idx = 0
    /\ news = None
    /\ market_sentiment = None
    /\ intentions = <<>>
    /\ trades = <<>>
    /\ steps = 0
    /\ events = 0
    /\ calls = 0
    /\ call = Call("__init__", 1, None, None)

AgentFrame ==
    UNCHANGED <<market, simulation_history, pc, idx, news, market_sentiment, intentions,
                trades, steps, events>>

\* agent.update_beliefs(news, current_price, market_sentiment)
AgentUpdateBeliefs ==
    /\ calls < MaxAgentCalls
    /\ \E response \in AgentBeliefReplies :
        /\ agents' = [agents EXCEPT ![1] = UpdateBeliefs(@, response, AgentNews)]
        /\ call' = Call("update_beliefs", 1,
                        [response |-> response, news |-> AgentNews, price |-> TradingPrice],
                        None)
    /\ calls' = calls + 1
    /\ AgentFrame

\* agent.form_intention(current_price)
AgentFormIntention ==
    /\ calls < MaxAgentCalls
    /\ \E response \in AgentIntentionReplies :
        /\ agents' = [agents EXCEPT ![1] = FormIntention(@, response, TradingPrice)]
        /\ call' = Call("form_intention", 1,
                        [response |-> response, price |-> TradingPrice],
                        agents'[1].intentions[Len(agents'[1].intentions)])
    /\ calls' = calls + 1
    /\ AgentFrame

\* agent.execute_trade(agent.intentions[-1], current_price)
AgentExecuteTrade ==
    /\ calls < MaxAgentCalls
    /\ agents[1].intentions # <<>>
    /\ LET self == agents[1]
           intention == self.intentions[Len(self.intentions)]
           done == ExecuteTrade(self, intention, TradingPrice)
       IN  /\ agents' = [agents EXCEPT ![1] = done.agent]
           /\ call' = Call("execute_trade", 1,
                           [intention |-> intention, price |-> TradingPrice],
                           done.result)
    /\ calls' = calls + 1
    /\ AgentFrame

NextAgent ==
    \/ AgentUpdateBeliefs
    \/ AgentFormIntention
    \/ AgentExecuteTrade

SpecAgent == InitAgent /\ [][NextAgent]_vars

-----------------------------------------------------------------------------
(* An Agent with given holdings: form_intention and execute_trade called     *)
(* directly, with texts that exercise every branch of the parser             *)

\* the texts the Oracle answers the intention prompt with
HoldingReplies ==
    {Empty, TxtBuy, TxtSell, TxtSellBuy, TxtHoldNoBuy, TxtSellLine, TxtReasonCap,
     TxtBuy20, TxtBuyZero, TxtLong}

\* the agent after form_intention answered `response` and execute_trade, both
\* at 100.00
Bought(self, response) ==
    LET formed == FormIntention(self, response, INITIAL_STOCK_PRICE)
    IN  ExecuteTrade(formed, formed.intentions[1], INITIAL_STOCK_PRICE).agent

\* Agent(name, agent_type) of each type: fresh, or after a buy of 1, 20, 90, 99
\* or 100 shares at 100.00 (cash 9900.00, 8000.00, 1000.00, 100.00, 0.00)
Holdings(agent_type) ==
    {FreshAgent(agent_type)}
        \cup {Bought(FreshAgent(agent_type), response) :
                response \in {TxtBuy1, TxtBuy20, TxtBuy90, TxtBuy99, TxtBuy100}}

InitIntention ==
    /\ \E t \in 1..Len(AGENT_TYPES) :
        \E self \in Holdings(AGENT_TYPES[t]) : agents = <<self>>
    /\ \E price \in AgentPrices : market = NewMarket(price)
    /\ simulation_history = <<>>
    /\ pc = "idle"
    /\ idx = 0
    /\ news = None
    /\ market_sentiment = None
    /\ intentions = <<>>
    /\ trades = <<>>
    /\ steps = 0
    /\ events = 0
    /\ calls = 0
    /\ call = Call("__init__", 1, None, None)

\* agent.form_intention(current_price)
HoldingFormIntention ==
    /\ calls < MaxIntentionCalls
    /\ \E response \in HoldingReplies :
        /\ agents' = [agents EXCEPT ![1] = FormIntention(@, response, TradingPrice)]
        /\ call' = Call("form_intention", 1,
                        [response |-> response, price |-> TradingPrice],
                        agents'[1].intentions[Len(agents'[1].intentions)])
    /\ calls' = calls + 1
    /\ AgentFrame

\* agent.execute_trade(agent.intentions[-1], current_price)
HoldingExecuteTrade ==
    /\ calls < MaxIntentionCalls
    /\ agents[1].intentions # <<>>
    /\ LET self == agents[1]
           intention == self.intentions[Len(self.intentions)]
           done == ExecuteTrade(self, intention, TradingPrice)
       IN  /\ agents' = [agents EXCEPT ![1] = done.agent]
           /\ call' = Call("execute_trade", 1,
                           [intention |-> intention, price |-> TradingPrice],
                           done.result)
    /\ calls' = calls + 1
    /\ AgentFrame

NextIntention ==
    \/ HoldingFormIntention
    \/ HoldingExecuteTrade

SpecIntention == InitIntention /\ [][NextIntention]_vars

-----------------------------------------------------------------------------
(* A stand-alone Market: generate_news, calculate_price and update called    *)
(* directly, in any order                                                     *)

\* initial_price of the stand-alone market: 100.00 and 10.00
MarketPrices == {10000, 1000}

\* (net_order_flow, news_impact, random draw) of a calculate_price call
PriceInputs ==
    {[net_order_flow |-> 0,    news_impact |-> 0,  draw |-> 0],
     [net_order_flow |-> -500, news_impact |-> -7, draw |-> -10],
     [net_order_flow |-> 20,   news_impact |-> 7,  draw |-> 10]}

\* trade lists handed to update
TradeLists ==
    {<<>>,
     <<[action |-> "buy", quantity |-> 20, price |-> 10000, cost |-> 200000]>>,
     <<[action |-> "sell", quantity |-> 600, price |-> 10000, revenue |-> 6000000],
       [action |-> "buy", quantity |-> 20, price |-> 10000, cost |-> 200000]>>}

InitMarket ==
    /\ \E price \in MarketPrices : market = NewMarket(price)
    /\ agents = <<>>
    /\ simulation_history = <<>>
    /\ pc = "idle"
    /\ idx = 0
    /\ news = None
    /\ market_sentiment = None
    /\ intentions = <<>>
    /\ trades = <<>>
    /\ steps = 0
    /\ events = 0
    /\ calls = 0
    /\ call = Call("__init__", 0, None, None)

MarketFrame ==
    UNCHANGED <<agents, simulation_history, pc, idx, news, market_sentiment, intentions,
                trades, steps, events>>

\* market.generate_news()
MarketGenerateNews ==
    /\ calls < MaxMarketCalls
    /\ \E choice \in NewsChoices :
        /\ market' = GenerateNews(market, choice)
        /\ call' = Call("generate_news", 0, None, NewsItem(market, choice))
    /\ calls' = calls + 1
    /\ MarketFrame

\* market.calculate_price(net_order_flow, news_impact)
MarketCalculatePrice ==
    /\ calls < MaxMarketCalls
    /\ \E in \in PriceInputs :
        /\ market' = CalculatePrice(market, in.net_order_flow, in.news_impact, in.draw)
        /\ call' = Call("calculate_price", 0, in, market'.current_price)
    /\ calls' = calls + 1
    /\ MarketFrame

\* market.update(trades, news)
MarketCallUpdate ==
    /\ calls < MaxMarketCalls
    /\ \E ts \in TradeLists, sentiment \in {"positive", "negative"}, draw \in {-10, 0} :
        LET item == [content |-> CalmNews, sentiment |-> sentiment,
                     timestamp |-> market.timestep]
        IN  /\ market' = MarketUpdate(market, ts, item, draw)
            /\ call' = Call("update", 0, [trades |-> ts, news |-> item, draw |-> draw],
                            None)
    /\ calls' = calls + 1
    /\ MarketFrame

NextMarket ==
    \/ MarketGenerateNews
    \/ MarketCalculatePrice
    \/ MarketCallUpdate

SpecMarket == InitMarket /\ [][NextMarket]_vars

-----------------------------------------------------------------------------
(* Properties *)

AgentIds == 1..Len(agents)

\* C1: in every state reachable by step() and reset(), whatever the Oracle
\* answers, every agent's cash and every agent's shares are >= 0.
C1_LedgerNonNegative ==
    \A i \in AgentIds : agents[i].cash >= 0 /\ agents[i].shares >= 0

\* an agent that bought in one step and sold part of it in the next
C1_Witness ==
    \E i \in AgentIds :
        /\ Len(agents[i].trade_history) = 2
        /\ agents[i].trade_history[1].action = "buy"
        /\ agents[i].trade_history[2].action = "sell"
        /\ agents[i].shares > 0
        /\ agents[i].cash < DEFAULT_CASH

\* C2: cash and shares change only inside execute_trade, and only as a matching
\* pair: a buy of qty at price p takes p*qty of cash and adds qty shares, a sell
\* adds p*qty of cash and takes qty shares; update_beliefs and form_intention
\* leave both alone.
C2_Step ==
    LET i  == call'.agent
        a  == agents[i]
        b  == agents'[i]
    IN  /\ call'.op \in {"update_beliefs", "form_intention"}
            => b.cash = a.cash /\ b.shares = a.shares
        /\ (call'.op = "execute_trade" /\ call'.result # None)
            => LET qty == call'.arg.intention.quantity
                   p   == call'.arg.price
               IN  /\ call'.result.action = "buy"
                        => b.cash = a.cash - p * qty /\ b.shares = a.shares + qty
                   /\ call'.result.action = "sell"
                        => b.cash = a.cash + p * qty /\ b.shares = a.shares - qty
        /\ (call'.op = "execute_trade" /\ call'.result = None)
            => b.cash = a.cash /\ b.shares = a.shares
        /\ \A j \in AgentIds :
            (agents'[j].cash # agents[j].cash \/ agents'[j].shares # agents[j].shares)
                => /\ call'.op = "execute_trade"
                   /\ j = i
                   /\ agents'[j].shares # agents[j].shares
                   /\ agents'[j].cash - agents[j].cash
                        = (agents[j].shares - agents'[j].shares) * call'.arg.price

C2_LedgerPairs == [][C2_Step]_vars

\* cash 10000, buy 20 at 100.0: cash 8000.0, shares 20
C2_Witness ==
    /\ call.op = "execute_trade"
    /\ call.result # None
    /\ call.result.action = "buy"
    /\ call.arg.intention.quantity = 20
    /\ call.arg.price = 10000
    /\ agents[call.agent].cash = 800000
    /\ agents[call.agent].shares = 20

\* C3: execute_trade buys only if quantity > 0 and quantity*price <= cash, sells
\* only if quantity > 0 and quantity <= shares; for every other intention it
\* returns nothing and leaves cash, shares and the trade log as they were; the
\* quantity traded is the quantity of the intention.
C3_Step ==
    call'.op = "execute_trade" =>
        LET a  == agents[call'.agent]
            b  == agents'[call'.agent]
            it == call'.arg.intention
            p  == call'.arg.price
            canBuy  == it.action = "buy" /\ it.quantity > 0 /\ it.quantity * p <= a.cash
            canSell == it.action = "sell" /\ it.quantity > 0 /\ it.quantity <= a.shares
        IN  /\ call'.result # None =>
                /\ call'.result.action = "buy" => canBuy
                /\ call'.result.action = "sell" => canSell
                /\ call'.result.quantity = it.quantity
                /\ Len(b.trade_history) = Len(a.trade_history) + 1
            /\ ~(canBuy \/ canSell) =>
                /\ call'.result = None
                /\ b.cash = a.cash
                /\ b.shares = a.shares
                /\ b.trade_history = a.trade_history

C3_TradeGuards == [][C3_Step]_vars

\* shares 20, sell 100: nothing returned, nothing changed
C3_Witness ==
    /\ call.op = "execute_trade"
    /\ call.result = None
    /\ call.arg.intention.action = "sell"
    /\ call.arg.intention.quantity = 100
    /\ agents[call.agent].shares = 20
    /\ agents[call.agent].cash = 800000
    /\ Len(agents[call.agent].trade_history) = 1

\* C4: in every Market state current_price >= 0.3 * initial_price, and so is
\* every entry of price_history, whatever the calls and their inputs.
C4_PriceFloor ==
    /\ 10 * market.current_price >= 3 * market.initial_price
    /\ \A k \in 1..Len(market.price_history) :
        10 * market.price_history[k] >= 3 * market.initial_price

\* the price is at the floor and a call with a negative order flow left it there
C4_Witness ==
    /\ call.op \in {"calculate_price", "update"}
    /\ Len(market.price_history) >= 3
    /\ 10 * market.current_price = 3 * market.initial_price
    /\ 10 * market.price_history[Len(market.price_history) - 1] = 3 * market.initial_price
    /\ call.op = "calculate_price" => call.arg.net_order_flow < 0
    /\ call.op = "update" => Len(call.arg.trades) = 2

\* C5: after N completed step() calls since construction or the last reset(),
\* timestep = N, price_history has N+1 entries, and simulation_history,
\* news_history, sentiment_history and trades_history have N entries each.
C5_HistoryAlignment ==
    pc = "idle" =>
        /\ market.timestep = steps
        /\ Len(market.price_history) = steps + 1
        /\ Len(simulation_history) = steps
        /\ Len(market.news_history) = steps
        /\ Len(market.sentiment_history) = steps
        /\ Len(market.trades_history) = steps

C5_Witness == pc = "idle" /\ steps >= 2 /\ call.op = "step"

\* C6: the phases of one step() run in the order news, sentiment, beliefs of
\* every agent, intentions of every agent, trades of every agent, market update,
\* snapshot; no intention is formed before every agent has updated its beliefs
\* and no trade is executed before every agent has formed its intention.
C6_Phase ==
    LET done(i, phase) == IF pc = phase /\ i >= idx THEN steps ELSE steps + 1
    IN
    /\ pc \in {"idle", "sentiment"} =>
        \A i \in AgentIds : Len(agents[i].opinions) = steps
    /\ pc = "idle" => Len(market.news_history) = steps
    /\ pc = "sentiment" =>
        Len(market.news_history) = steps + 1 /\ Len(market.sentiment_history) = steps
    /\ pc \in {"beliefs", "intentions", "trades", "update", "record"} =>
        Len(market.sentiment_history) = steps + 1
    /\ pc = "beliefs" =>
        \A i \in AgentIds : /\ Len(agents[i].opinions) = done(i, "beliefs")
                            /\ Len(agents[i].intentions) = steps
    /\ pc = "intentions" =>
        \A i \in AgentIds : /\ Len(agents[i].opinions) = steps + 1
                            /\ Len(agents[i].intentions) = done(i, "intentions")
    /\ pc \in {"idle", "sentiment", "beliefs", "intentions"} => trades = <<>>
    /\ pc \in {"trades", "update", "record"} =>
        \A i \in AgentIds : /\ Len(agents[i].opinions) = steps + 1
                            /\ Len(agents[i].intentions) = steps + 1
    /\ pc \in {"sentiment", "beliefs", "intentions", "trades", "update"} =>
        market.timestep = steps /\ Len(simulation_history) = steps
    /\ pc = "record" =>
        market.timestep = steps + 1 /\ Len(simulation_history) = steps

C6_Order ==
    {<<"idle", "sentiment">>, <<"sentiment", "beliefs">>, <<"beliefs", "intentions">>,
     <<"intentions", "trades">>, <<"trades", "update">>, <<"update", "record">>,
     <<"record", "idle">>}

C6_Step ==
    /\ pc' # pc => <<pc, pc'>> \in C6_Order
    /\ call'.op = "form_intention" =>
        \A j \in AgentIds : Len(agents[j].opinions) = steps + 1
    /\ call'.op = "execute_trade" =>
        \A j \in AgentIds : Len(agents[j].intentions) = steps + 1
    /\ \A i \in AgentIds :
        /\ Len(agents'[i].intentions) > Len(agents[i].intentions) =>
            \A j \in AgentIds : Len(agents[j].opinions) = steps + 1
        /\ Len(agents'[i].trade_history) > Len(agents[i].trade_history) =>
            \A j \in AgentIds : Len(agents[j].intentions) = steps + 1

C6_PhaseOrder == [](C6_Phase) /\ [][C6_Step]_vars

\* the last agent is about to trade in the second step, a trade already made
C6_Witness ==
    /\ pc = "trades"
    /\ idx = Len(agents)
    /\ steps = 1
    /\ trades # <<>>

\* C7: within one step() every agent forms its intention and trades at the
\* market's current_price from before this step's update; every trade of the
\* step records that price; no trade moves the price the others see.
C7_State ==
    /\ pc \in {"sentiment", "beliefs", "intentions", "trades", "update"} =>
        /\ Len(market.price_history) = steps + 1
        /\ market.current_price = market.price_history[steps + 1]
    /\ \A t \in 1..Len(trades) : trades[t].price = market.price_history[steps + 1]
    /\ \A k \in 1..Len(simulation_history) :
        \A t \in 1..Len(simulation_history[k].trades) :
            simulation_history[k].trades[t].price = market.price_history[k]

C7_Step ==
    call'.op \in {"form_intention", "execute_trade"} =>
        /\ call'.arg.price = market.price_history[steps + 1]
        /\ market' = market
        /\ call'.result # None /\ call'.op = "execute_trade" =>
            call'.result.price = market.price_history[steps + 1]

C7_OnePricePerStep == [](C7_State) /\ [][C7_Step]_vars

\* a trade of the second step, made at a price the first step had moved
C7_Witness ==
    /\ Len(simulation_history) = 2
    /\ simulation_history[2].trades # <<>>
    /\ simulation_history[2].trades[1].price = market.price_history[2]
    /\ market.price_history[2] # market.price_history[1]
    /\ market.price_history[3] # market.price_history[2]

\* the roster of config.py
C8_Roster ==
    <<<<"optimistic investor A", "optimistic">>, <<"optimistic investor B", "optimistic">>,
      <<"pessimistic investor A", "pessimistic">>,
      <<"pessimistic investor B", "pessimistic">>,
      <<"calm investor A", "calm">>>>

C8_InitialOutlook(agent_type) ==
    CASE agent_type = "optimistic"  -> "positive"
      [] agent_type = "pessimistic" -> "negative"
      [] agent_type = "calm"        -> "neutral"

\* C8: after reset() simulation_history is empty, the market is a fresh one at
\* the original initial price, and the agents are those of the construction:
\* same names and types in the same order, cash 10000.0, shares 0, the initial
\* outlook of the type, empty logs.
C8_Step ==
    call'.op = "reset" =>
        /\ simulation_history' = <<>>
        /\ market'.timestep = 0
        /\ market'.initial_price = market.initial_price
        /\ market'.current_price = market.initial_price
        /\ market'.price_history = <<market.initial_price>>
        /\ market'.news_history = <<>>
        /\ market'.sentiment_history = <<>>
        /\ market'.trades_history = <<>>
        /\ [i \in 1..Len(agents') |-> <<agents'[i].name, agents'[i].agent_type>>]
                = C8_Roster
        /\ [i \in 1..Len(agents') |-> <<agents'[i].name, agents'[i].agent_type>>]
                = [i \in 1..Len(agents) |-> <<agents[i].name, agents[i].agent_type>>]
        /\ \A i \in 1..Len(agents') :
            /\ agents'[i].cash = 1000000
            /\ agents'[i].shares = 0
            /\ agents'[i].beliefs.market_outlook = C8_InitialOutlook(agents'[i].agent_type)
            /\ agents'[i].opinions = <<>>
            /\ agents'[i].intentions = <<>>
            /\ agents'[i].trade_history = <<>>

C8_ResetPurity == [][C8_Step]_vars

\* reset() has just discarded two steps
C8_Witness ==
    /\ call.op = "reset"
    /\ call.arg.discarded = 2
    /\ simulation_history = <<>>
    /\ steps = 0

\* the keywords of the two cues, as they are written
C9_HasUp(text) ==
    Contains(text, KwUp) \/ Contains(text, KwPositive) \/ Contains(text, KwOptimistic)

C9_HasDown(text) ==
    Contains(text, KwDown) \/ Contains(text, KwNegative) \/ Contains(text, KwPessimistic)

C9_UpApplied(a, b) ==
    /\ a.agent_type = "optimistic" => b.beliefs.market_outlook = "very_positive"
    /\ a.agent_type = "pessimistic" => b.beliefs.market_outlook = "slightly_positive"

C9_DownApplied(a, b) ==
    /\ a.agent_type = "pessimistic" => b.beliefs.market_outlook = "very_negative"
    /\ a.agent_type = "optimistic" => b.beliefs.market_outlook = "slightly_negative"

C9_Frame(a, b) ==
    /\ a.agent_type = "calm" => b.beliefs.market_outlook = a.beliefs.market_outlook
    /\ b.beliefs.risk_tolerance = a.beliefs.risk_tolerance

\* C9 as stated: a text with an up cue sets very_positive / slightly_positive, a
\* text with a down cue sets very_negative / slightly_negative, a calm agent's
\* outlook and every risk_tolerance stay.
C9_AsStatedStep ==
    call'.op = "update_beliefs" =>
        LET a == agents[call'.agent]
            b == agents'[call'.agent]
            text == call'.arg.response
        IN  /\ C9_HasUp(text) => C9_UpApplied(a, b)
            /\ C9_HasDown(text) => C9_DownApplied(a, b)
            /\ C9_Frame(a, b)

C9_AsStated == [][C9_AsStatedStep]_vars

\* C9, amended: the down transition is the one applied when the text has a down
\* cue and no up cue in any letter case; the up transition whenever the text
\* has an up cue.
C9_AmendedStep ==
    call'.op = "update_beliefs" =>
        LET a == agents[call'.agent]
            b == agents'[call'.agent]
            text == call'.arg.response
        IN  /\ C9_HasUp(text) => C9_UpApplied(a, b)
            /\ (C9_HasDown(text) /\ ~C9_HasUp(Lower(text))) => C9_DownApplied(a, b)
            /\ C9_Frame(a, b)

C9_OutlookTransition == [][C9_AmendedStep]_vars

\* a pessimistic agent that has just read a text with a down cue only
C9_Witness ==
    /\ call.op = "update_beliefs"
    /\ C9_HasDown(call.arg.response)
    /\ ~C9_HasUp(Lower(call.arg.response))
    /\ agents[call.agent].agent_type = "pessimistic"
    /\ agents[call.agent].beliefs.market_outlook = "very_negative"

\* C10: a text has the effect of the same text in lower case: the six keywords
\* are found in any letter case.
C10_Step ==
    call'.op = "update_beliefs" =>
        agents'[call'.agent].beliefs.market_outlook
            = NewOutlook(agents[call'.agent], Lower(call'.arg.response))

C10_CaseInsensitive == [][C10_Step]_vars

\* a text with none of the six keywords, in any letter case
C11_NoCue(text) == ~C9_HasUp(Lower(text)) /\ ~C9_HasDown(Lower(text))

\* C11: update_beliefs returns for every Oracle text; a text that is empty or
\* has none of the cues leaves market_outlook as it was; every call appends one
\* record to the opinion log, holding the news content, the raw text and the
\* length the log had before, and leaves the earlier records as they were.
C11_Step ==
    call'.op = "update_beliefs" =>
        LET a == agents[call'.agent]
            b == agents'[call'.agent]
            text == call'.arg.response
        IN  /\ (text = Empty \/ C11_NoCue(text)) =>
                b.beliefs.market_outlook = a.beliefs.market_outlook
            /\ Len(b.opinions) = Len(a.opinions) + 1
            /\ SubSeq(b.opinions, 1, Len(a.opinions)) = a.opinions
            /\ b.opinions[Len(b.opinions)] =
                    [news      |-> call'.arg.news.content,
                     response  |-> text,
                     timestamp |-> Len(a.opinions)]

C11_OpinionLog == [][C11_Step]_vars

\* an optimistic agent that read "up" and then an empty text: the outlook of
\* the first text is kept, the log has the two records
C11_Witness ==
    /\ call.op = "update_beliefs"
    /\ call.arg.response = Empty
    /\ agents[call.agent].agent_type = "optimistic"
    /\ agents[call.agent].beliefs.market_outlook = "very_positive"
    /\ Len(agents[call.agent].opinions) = 2
    /\ agents[call.agent].opinions[1].response = TxtUp
    /\ agents[call.agent].opinions[1].timestamp = 0
    /\ agents[call.agent].opinions[2].response = Empty
    /\ agents[call.agent].opinions[2].timestamp = 1

\* the action: line of a text, from the label to the end of the line
C12_ActionLine(text) == FirstLine(From(text, Find(text, KwAction)))

C12_FirstOf(text) ==
    IF Contains(text, KwBuy) THEN "buy"
    ELSE IF Contains(text, KwSell) THEN "sell"
    ELSE "hold"

\* C12: with an action: line the action is buy if that line has "buy", else
\* sell if it has "sell", else hold, whatever the rest of the response says;
\* without one it is buy if the response has "buy", else sell if it has "sell",
\* else hold.  An empty response gives hold with quantity 0, and no trade.
C12_Step ==
    /\ call'.op = "form_intention" =>
        LET text == Lower(call'.arg.response)
            it == call'.result
        IN  /\ Contains(text, KwAction) => it.action = C12_FirstOf(C12_ActionLine(text))
            /\ ~Contains(text, KwAction) => it.action = C12_FirstOf(text)
            /\ call'.arg.response = Empty => it.action = "hold" /\ it.quantity = 0
            /\ agents'[call'.agent].intentions[Len(agents'[call'.agent].intentions)] = it
    /\ (call'.op = "execute_trade" /\ call'.arg.intention.response = Empty) =>
        /\ call'.result = None
        /\ agents'[call'.agent].cash = agents[call'.agent].cash
        /\ agents'[call'.agent].shares = agents[call'.agent].shares

C12_ActionRule == [][C12_Step]_vars

\* an agent holding 20 shares: "action: hold" with "buy" on the reason line
\* gave hold, and the trade execution that followed did nothing
C12_Witness ==
    /\ call.op = "execute_trade"
    /\ call.arg.intention.response = TxtHoldNoBuy
    /\ call.arg.intention.action = "hold"
    /\ call.result = None
    /\ Len(agents[call.agent].intentions) = 2
    /\ agents[call.agent].shares = 20
    /\ Len(agents[call.agent].trade_history) = 1

\* the fractions of the claim, in tenths
C13_BuyFraction(agent_type) ==
    CASE agent_type = "optimistic" -> 8 [] agent_type = "pessimistic" -> 3 [] OTHER -> 5

C13_SellFraction(agent_type) ==
    CASE agent_type = "pessimistic" -> 7 [] agent_type = "optimistic" -> 2 [] OTHER -> 4

\* C13: without a positive explicit quantity, a buy takes
\* max(1, floor(max_affordable * f)) with max_affordable = floor(cash/price) > 0
\* (0 when max_affordable is 0), a sell takes min(shares, max(1, floor(shares * g)))
\* with shares > 0 (0 when shares is 0), a hold takes 0; a positive explicit
\* quantity is kept.
C13_Step ==
    call'.op = "form_intention" =>
        LET a == agents[call'.agent]
            it == call'.result
            explicit == ParsedQuantity(call'.arg.response)
            max_affordable == a.cash \div call'.arg.price
        IN  /\ explicit > 0 => it.quantity = explicit
            /\ (explicit = 0 /\ it.action = "buy") =>
                it.quantity =
                    IF max_affordable > 0
                    THEN Max(1, (max_affordable * C13_BuyFraction(a.agent_type)) \div 10)
                    ELSE 0
            /\ (explicit = 0 /\ it.action = "sell") =>
                it.quantity =
                    IF a.shares > 0
                    THEN Min(a.shares,
                             Max(1, (a.shares * C13_SellFraction(a.agent_type)) \div 10))
                    ELSE 0
            /\ (explicit = 0 /\ it.action = "hold") => it.quantity = 0

C13_DefaultQuantity == [][C13_Step]_vars

\* the text of the reason: line, the label found in any letter case
C14_ReasonLine(text) ==
    LET line == FirstLine(From(text, Find(Lower(text), KwReason)))
    IN  Strip(SubSeq(line, Len(KwReason) + 1, Len(line)))

\* C14: the reason of an intention is the text of the response's reason: line
\* when there is one, the label in any letter case, and the first 100
\* characters of the response otherwise.
C14_Step ==
    call'.op = "form_intention" =>
        LET text == call'.arg.response
            it == call'.result
        IN  IF Contains(Lower(text), KwReason)
            THEN it.reason = C14_ReasonLine(text)
            ELSE it.reason = SubSeq(text, 1, Min(100, Len(text)))

C14_ReasonRule == [][C14_Step]_vars

\* the quantities of the trades of one action, summed
RECURSIVE C15_Sum(_, _)
C15_Sum(ts, action) ==
    IF ts = <<>> THEN 0
    ELSE C15_Sum(Tail(ts), action)
         + (IF Head(ts).action = action THEN Head(ts).quantity ELSE 0)

\* C15: every Market.update(trades, news) appends one price to price_history
\* and one record to trades_history, the record holding the trades, the sum of
\* the buy quantities minus the sum of the sell quantities, and the timestep
\* from before the call, and adds 1 to timestep; no other operation of the
\* Market changes timestep.
C15_Step ==
    /\ call'.op = "update" =>
        LET ts == call'.arg.trades
            net == C15_Sum(ts, "buy") - C15_Sum(ts, "sell")
        IN  /\ market'.timestep = market.timestep + 1
            /\ Len(market'.price_history) = Len(market.price_history) + 1
            /\ SubSeq(market'.price_history, 1, Len(market.price_history))
                    = market.price_history
            /\ market'.price_history[Len(market'.price_history)] = market'.current_price
            /\ market'.trades_history =
                    Append(market.trades_history,
                           [trades |-> ts, net_order_flow |-> net,
                            timestamp |-> market.timestep])
    /\ call'.op # "update" => market'.timestep = market.timestep

C15_UpdateOnce == [][C15_Step]_vars

\* the second update, of a sell of 600 and a buy of 20: net order flow -580,
\* recorded at timestep 1
C15_Witness ==
    /\ call.op = "update"
    /\ Len(call.arg.trades) = 2
    /\ market.timestep = 2
    /\ Len(market.trades_history) = 2
    /\ market.trades_history[2].net_order_flow = -580
    /\ market.trades_history[2].timestamp = 1
    /\ Len(market.price_history) >= 3

\* the text an agent is handed when the Oracle call of `op` raised
C16_Fallback(op, self, text) ==
    IF op = "update_beliefs" THEN text = MockBelief
    ELSE text \in {MockOptimisticBuy, MockOptimisticHold, MockPessimisticNoShares,
                   MockPessimisticSell, MockPessimisticHold, MockCalmBuy, MockCalmSell,
                   MockCalmHold}

C16_Step ==
    /\ (pc # "idle" /\ pc' = "idle") =>
        /\ pc = "record"
        /\ Len(simulation_history') = Len(simulation_history) + 1
        /\ steps' = steps + 1
    /\ (pc' # "idle" \/ pc = "idle") /\ call'.op # "reset" =>
        simulation_history' = simulation_history
    /\ call'.op \in {"update_beliefs", "form_intention"} =>
        LET a == agents[call'.agent]
            b == agents'[call'.agent]
        IN  /\ call'.arg.error => C16_Fallback(call'.op, a, call'.arg.response)
            /\ call'.op = "update_beliefs" =>
                b.opinions[Len(b.opinions)].response = call'.arg.response
            /\ call'.op = "form_intention" =>
                /\ b.intentions[Len(b.intentions)].response = call'.arg.response
                /\ b.intentions[Len(b.intentions)].action \in {"buy", "sell", "hold"}
                /\ b.intentions[Len(b.intentions)].quantity >= 0

\* C16: every step() that was called runs to its end and appends exactly one
\* snapshot, whatever the Oracle does: when an Oracle call raises, the agent is
\* handed the fallback text of generate_response; an empty or malformed text
\* is parsed to the defaults; no step is left between two phases.
C16_StepCompletes == [](pc # "idle" => <>(pc = "idle")) /\ [][C16_Step]_vars

\* a completed step in which the Oracle raised for the first agent's belief
\* and intention prompts: the fallback texts were parsed and a trade was made
C16_Witness ==
    /\ pc = "idle"
    /\ call.op = "step"
    /\ Len(simulation_history) = 1
    /\ agents[1].opinions[1].response = MockBelief
    /\ agents[1].beliefs.market_outlook = "very_positive"
    /\ simulation_history[1].intentions[1].intention.response = MockOptimisticBuy
    /\ simulation_history[1].intentions[1].intention.quantity = 50
    /\ Len(simulation_history[1].trades) = 1
    /\ \A i \in 2..Len(agents) : agents[i].intentions[1].response = Empty

\* C17: simulation_history only grows at its end, by the one snapshot a step()
\* appends; the snapshots already in it keep their content through every later
\* phase and step; only reset() empties it.
C17_Step ==
    /\ call'.op = "step" =>
        /\ Len(simulation_history') = Len(simulation_history) + 1
        /\ SubSeq(simulation_history', 1, Len(simulation_history)) = simulation_history
    /\ call'.op = "reset" => simulation_history' = <<>>
    /\ call'.op \notin {"step", "reset"} => simulation_history' = simulation_history

C17_AppendOnly == [][C17_Step]_vars

\* after the second step the first snapshot still shows the first agent
\* without shares, although it has bought since
C17_Witness ==
    /\ call.op = "step"
    /\ Len(simulation_history) = 2
    /\ simulation_history[1].timestep = 1
    /\ simulation_history[1].trades = <<>>
    /\ simulation_history[1].agent_states[1].shares = 0
    /\ simulation_history[2].agent_states[1].shares > 0
    /\ agents[1].shares > 0

\* the scores of the seven outlooks, in hundredths
C18_Score(outlook) ==
    CASE outlook = "very_positive"     -> 90
      [] outlook = "positive"          -> 60
      [] outlook = "slightly_positive" -> 30
      [] outlook = "neutral"           -> 0
      [] outlook = "slightly_negative" -> -30
      [] outlook = "negative"          -> -60
      [] outlook = "very_negative"     -> -90

RECURSIVE C18_Total(_, _)
C18_Total(S, as) ==
    IF S = {} THEN 0
    ELSE LET i == CHOOSE j \in S : TRUE
         IN  C18_Score(as[i].beliefs.market_outlook) + C18_Total(S \ {i}, as)

C18_OfType(as, agent_type) == {i \in 1..Len(as) : as[i].agent_type = agent_type}

\* every score reported for an agent is the score of its outlook, within [-1, 1]
C18_State ==
    /\ \A i \in AgentIds :
        agents[i].beliefs.market_outlook \in
            {"very_positive", "positive", "slightly_positive", "neutral",
             "slightly_negative", "negative", "very_negative"}
    /\ \A k \in 1..Len(simulation_history) :
        \A i \in 1..Len(simulation_history[k].agent_states) :
            LET s == simulation_history[k].agent_states[i]
            IN  /\ s.sentiment_score = C18_Score(s.market_outlook)
                /\ s.sentiment_score >= -100
                /\ s.sentiment_score <= 100

\* the aggregate of each type is the mean of the scores of its agents
C18_Step ==
    call'.op = "_calculate_market_sentiment" =>
        /\ \A t \in {"optimistic", "pessimistic", "calm"} :
            LET S == C18_OfType(agents, t)
            IN  IF S = {} THEN call'.result[t] = 0
                ELSE /\ Cardinality(S) * call'.result[t] = C18_Total(S, agents)
                     /\ call'.result[t] >= -100
                     /\ call'.result[t] <= 100
        /\ market_sentiment' = call'.result
        /\ market'.sentiment_history = Append(market.sentiment_history, call'.result)

\* C18: get_sentiment_score is the score of the agent's outlook (0.9, 0.6, 0.3,
\* 0.0, -0.3, -0.6, -0.9), always within [-1, 1], and the aggregate
\* _calculate_market_sentiment gives each type is the arithmetic mean of the
\* scores of the agents of that type (0.0 for a type without agents).
C18_SentimentMean == [](C18_State) /\ [][C18_Step]_vars

\* second step: one optimistic agent is very_positive, the other positive, and
\* the aggregate of the type is 0.75
C18_Witness ==
    /\ call.op = "_calculate_market_sentiment"
    /\ steps = 1
    /\ agents[1].beliefs.market_outlook = "very_positive"
    /\ agents[2].beliefs.market_outlook = "positive"
    /\ market_sentiment.optimistic = 75
    /\ market_sentiment.pessimistic = -60
    /\ simulation_history[1].agent_states[1].sentiment_score = 90

\* C19: calculate_price(net_order_flow, news_impact) sets the price to
\* max(current_price + random_walk + 0.1 * net_order_flow
\*     + 0.05 * news_impact * current_price, 0.3 * initial_price)
\* and appends it to price_history; with a random walk of 0, no order flow and
\* no news impact the price stays exactly where it was.  (Cents; news_impact in
\* tenths, the draw of the random walk in thousandths.)
C19_Step ==
    call'.op = "calculate_price" =>
        LET in  == call'.arg
            cur == market.current_price
            random_walk == (in.draw * cur) \div 1000
            order_impact == 10 * in.net_order_flow
            news_effect == (5 * in.news_impact * cur) \div 1000
            floor == (3 * market.initial_price) \div 10
            expected == Max(cur + random_walk + order_impact + news_effect, floor)
        IN  /\ market'.current_price = expected
            /\ call'.result = expected
            /\ market'.price_history = Append(market.price_history, expected)
            /\ (in.draw = 0 /\ in.net_order_flow = 0 /\ in.news_impact = 0) =>
                /\ market'.current_price = cur
                /\ market'.price_history = Append(market.price_history, cur)

C19_PriceFormula == [][C19_Step]_vars

\* a price above the floor, moved by a first call and left where it was by two
\* calls with all three terms 0, each of which appended it
C19_Witness ==
    /\ call.op = "calculate_price"
    /\ call.arg.draw = 0 /\ call.arg.net_order_flow = 0 /\ call.arg.news_impact = 0
    /\ Len(market.price_history) = 4
    /\ market.current_price # market.initial_price
    /\ 10 * market.current_price > 3 * market.initial_price
    /\ market.price_history[2] = market.current_price
    /\ market.price_history[3] = market.current_price
    /\ market.price_history[4] = market.current_price

\* the trades in the snapshots and the trades in the agents' logs
C20_InSnapshots ==
    Cardinality(UNION {{<<k, t>> : t \in 1..Len(simulation_history[k].trades)} :
                            k \in 1..Len(simulation_history)})

C20_InLogs ==
    Cardinality(UNION {{<<i, t>> : t \in 1..Len(agents[i].trade_history)} :
                            i \in AgentIds})

\* between calls the two counts agree and total_trades is that number; inside
\* a step the logs are ahead by the trades collected so far
C20_State ==
    /\ C20_InLogs = C20_InSnapshots + Len(trades)
    /\ pc = "idle" =>
        /\ C20_InSnapshots = C20_InLogs
        /\ TotalTrades = C20_InLogs

\* the count grows by one with every trade executed, and with nothing else
C20_Step ==
    /\ (call'.op = "execute_trade" /\ call'.result # None) => C20_InLogs' = C20_InLogs + 1
    /\ call'.op = "reset" => C20_InLogs' = 0
    /\ ~(call'.op = "execute_trade" /\ call'.result # None) /\ call'.op # "reset" =>
        C20_InLogs' = C20_InLogs

\* C20: in every state between calls of step() and reset() the trades counted
\* over the snapshots equal the trades counted over the agents' logs, so
\* total_trades of get_statistics, the larger of the two, is the number of
\* trades executed since construction or the last reset.
C20_TradeCount == [](C20_State) /\ [][C20_Step]_vars

\* two steps with one trade each, a buy and then a sell: total_trades is 2
C20_Witness ==
    /\ pc = "idle"
    /\ Len(simulation_history) = 2
    /\ Len(simulation_history[1].trades) = 1
    /\ Len(simulation_history[2].trades) = 1
    /\ simulation_history[2].trades[1].action = "sell"
    /\ C20_InLogs = 2
    /\ TotalTrades = 2

\* the outlooks an agent of a type can hold
C21_Outlooks(agent_type) ==
    IF agent_type = "optimistic" THEN {"positive", "very_positive", "slightly_negative"}
    ELSE IF agent_type = "pessimistic" THEN {"negative", "very_negative", "slightly_positive"}
    ELSE {"neutral"}

\* the outlook _initialize_personality gives a type
C21_Initial(agent_type) ==
    IF agent_type = "optimistic" THEN "positive"
    ELSE IF agent_type = "pessimistic" THEN "negative"
    ELSE "neutral"

C21_State ==
    \A i \in AgentIds :
        agents[i].beliefs.market_outlook \in C21_Outlooks(agents[i].agent_type)

\* an outlook that is not the initial one is not followed by the initial one,
\* and an agent keeps its type
C21_Step ==
    \A i \in AgentIds :
        /\ i \in 1..Len(agents')
        /\ agents'[i].agent_type = agents[i].agent_type
        /\ agents[i].beliefs.market_outlook # C21_Initial(agents[i].agent_type) =>
            agents'[i].beliefs.market_outlook # C21_Initial(agents[i].agent_type)

\* C21: whatever texts the Oracle answers, an optimistic agent's market_outlook
\* is one of positive, very_positive, slightly_negative, a pessimistic agent's
\* one of negative, very_negative, slightly_positive, a calm agent's is neutral;
\* an outlook that has left the initial value of its type never returns to it.
C21_OutlookRange == [](C21_State) /\ [][C21_Step]_vars

\* an optimistic agent that an up cue made very_positive and a down cue then
\* made slightly_negative
C21_Witness ==
    /\ call.op = "update_beliefs"
    /\ agents[1].agent_type = "optimistic"
    /\ Len(agents[1].opinions) = 2
    /\ UpCue(agents[1].opinions[1].response)
    /\ ~UpCue(agents[1].opinions[2].response)
    /\ DownCue(agents[1].opinions[2].response)
    /\ agents[1].beliefs.market_outlook = "slightly_negative"

\* the cues as _parse_belief_response tests them: 'up' and 'optimistic' as
\* written, 'positive' in any letter case, and the same for the down cues
C22_Up(text) ==
    Contains(text, KwUp) \/ Contains(Lower(text), KwPositive) \/ Contains(text, KwOptimistic)

C22_Down(text) ==
    Contains(text, KwDown) \/ Contains(Lower(text), KwNegative)
        \/ Contains(text, KwPessimistic)

\* the outlook each branch writes
C22_UpOutlook(agent_type) ==
    IF agent_type = "optimistic" THEN "very_positive" ELSE "slightly_positive"

C22_DownOutlook(agent_type) ==
    IF agent_type = "pessimistic" THEN "very_negative" ELSE "slightly_negative"

C22_Step ==
    call'.op = "update_beliefs" =>
        LET a == agents[call'.agent]
            b == agents'[call'.agent]
            text == call'.arg.response
        IN  /\ a.agent_type # "calm" =>
                /\ (C22_Up(text) /\ C22_Down(text)) =>
                    /\ b.beliefs.market_outlook = C22_UpOutlook(a.agent_type)
                    /\ b.beliefs.market_outlook # C22_DownOutlook(a.agent_type)
                /\ (b.beliefs.market_outlook = C22_DownOutlook(a.agent_type)
                        /\ b.beliefs.market_outlook # a.beliefs.market_outlook) =>
                    C22_Down(text) /\ ~C22_Up(text)
                /\ (C22_Down(text) /\ ~C22_Up(text)) =>
                    b.beliefs.market_outlook = C22_DownOutlook(a.agent_type)
            /\ a.agent_type = "calm" => b.beliefs.market_outlook = a.beliefs.market_outlook

\* C22: a text with both an up/positive/optimistic cue and a
\* down/negative/pessimistic cue has the effect of the up branch alone
\* (very_positive for an optimistic agent, slightly_positive for a pessimistic
\* one), whichever cue comes first; the down branch is applied only to a text
\* without an up cue.
C22_UpFirst == [][C22_Step]_vars

\* a pessimistic agent that read the down cue before the up cue, and then the
\* up cue before the down cue, and is slightly_positive
C22_Witness ==
    /\ call.op = "update_beliefs"
    /\ agents[1].agent_type = "pessimistic"
    /\ Len(agents[1].opinions) = 2
    /\ LET first == agents[1].opinions[1].response
           second == agents[1].opinions[2].response
       IN  /\ C22_Up(first) /\ C22_Down(first)
           /\ Find(first, KwDown) < Find(first, KwUp)
           /\ C22_Up(second) /\ C22_Down(second)
           /\ Find(second, KwUp) < Find(second, KwDown)
           /\ second = call.arg.response
    /\ agents[1].beliefs.market_outlook = "slightly_positive"

\* the snapshot of the k-th step (price_history[j] of the code is
\* market.price_history[j + 1] here)
C23_Snapshot(k) ==
    LET snapshot == simulation_history[k]
    IN  /\ snapshot.timestep = k
        /\ k + 1 <= Len(market.price_history)
        /\ snapshot.price = market.price_history[k + 1]
        /\ snapshot.news.timestamp = k - 1
        /\ k <= Len(market.news_history)
        /\ market.news_history[k] = snapshot.news
        /\ k <= Len(market.trades_history)
        /\ market.trades_history[k].timestamp = k - 1
        /\ market.trades_history[k].trades = snapshot.trades
        /\ \A t \in 1..Len(snapshot.trades) :
            snapshot.trades[t].price = market.price_history[k]

\* C23: the snapshot appended by the k-th step since construction or reset
\* has timestep k and price price_history[k], both read after Market.update;
\* its news item and the record the step appended to trades_history have
\* timestamp k - 1, and each of its trades has the price from before the
\* update, price_history[k - 1].
C23_SnapshotStamps ==
    \A k \in 1..Len(simulation_history) : C23_Snapshot(k)

\* two steps recorded, the second with a trade and with a price the update
\* moved away from the price of that trade
C23_Witness ==
    /\ call.op = "step"
    /\ Len(simulation_history) = 2
    /\ simulation_history[2].trades # <<>>
    /\ simulation_history[2].news.timestamp = 1
    /\ simulation_history[2].price # simulation_history[2].trades[1].price
    /\ simulation_history[1].price # market.initial_price

\* the shares of the first n agents
RECURSIVE C24_Shares(_, _)
C24_Shares(as, n) ==
    IF n = 0 THEN 0 ELSE as[n].shares + C24_Shares(as, n - 1)

\* net_order_flow summed over the first n records of trades_history
RECURSIVE C24_Flow(_, _)
C24_Flow(records, n) ==
    IF n = 0 THEN 0 ELSE records[n].net_order_flow + C24_Flow(records, n - 1)

\* the shares the first n trades of a list moved: bought minus sold
RECURSIVE C24_Moved(_, _)
C24_Moved(ts, n) ==
    IF n = 0 THEN 0
    ELSE C24_Moved(ts, n - 1)
            + (IF ts[n].action = "buy" THEN ts[n].quantity ELSE 0 - ts[n].quantity)

\* the trades a running step has executed and not yet handed to Market.update
C24_Pending == IF pc = "record" THEN 0 ELSE C24_Moved(trades, Len(trades))

\* C24: in every state step() and reset() leave, the shares of all agents sum
\* to the net_order_flow summed over the records of trades_history: each
\* executed trade is in the order flow once, in the record of its step, and
\* nothing else is.  (Inside a step the trades executed so far are ahead.)
C24_SharesAreOrderFlow ==
    /\ C24_Shares(agents, Len(agents))
            = C24_Flow(market.trades_history, Len(market.trades_history)) + C24_Pending
    /\ pc = "idle" =>
        /\ C24_Pending = 0
        /\ Len(market.trades_history) = Len(simulation_history)
    /\ \A k \in 1..Len(market.trades_history) :
        LET record == market.trades_history[k]
        IN  /\ record.net_order_flow = C24_Moved(record.trades, Len(record.trades))
            /\ \A t \in 1..Len(record.trades) :
                /\ record.trades[t].action \in {"buy", "sell"}
                /\ record.trades[t].quantity > 0
                /\ record.trades[t].price = market.price_history[k]

\* between two steps: the first bought 20 shares, the second sold them
C24_Witness ==
    /\ pc = "idle"
    /\ Len(market.trades_history) = 2
    /\ market.trades_history[1].net_order_flow = 20
    /\ market.trades_history[2].net_order_flow = -20
    /\ Len(market.trades_history[2].trades) = 1
    /\ C24_Shares(agents, Len(agents)) = 0

\* an intention whose quantity form_intention derived: its response has no
\* positive explicit quantity
C25_Derived(intention) == ParsedQuantity(intention.response) = 0

\* form_intention: the derived quantity against the agent's cash and shares
C25_Formed ==
    (call'.op = "form_intention" /\ C25_Derived(call'.result)) =>
        LET a == agents[call'.agent]
            q == call'.result.quantity
            price == call'.arg.price
            max_affordable == a.cash \div price
        IN  /\ call'.result.action = "buy" =>
                /\ q = 0 <=> max_affordable = 0
                /\ q # 0 => /\ 1 <= q
                            /\ q <= max_affordable
                            /\ q * price <= a.cash
            /\ call'.result.action = "sell" =>
                /\ q = 0 <=> a.shares = 0
                /\ q # 0 => 1 <= q /\ q <= a.shares
            /\ agents'[call'.agent].cash = a.cash
            /\ agents'[call'.agent].shares = a.shares

\* execute_trade called on the intention just formed, at the same price: the
\* trade takes place with the derived quantity, or the quantity was 0
C25_Executed ==
    (/\ call.op = "form_intention"
     /\ call'.op = "execute_trade"
     /\ call'.agent = call.agent
     /\ C25_Derived(call.result)
     /\ call.result.action \in {"buy", "sell"}) =>
        /\ call'.arg.intention = call.result
        /\ call'.arg.price = call.arg.price
        /\ call.result.quantity > 0 =>
            /\ call'.result # None
            /\ call'.result.action = call.result.action
            /\ call'.result.quantity = call.result.quantity
        /\ call.result.quantity = 0 =>
            /\ call'.result = None
            /\ agents'[call'.agent] = agents[call'.agent]

\* C25: a quantity derived by form_intention (the response has no positive
\* explicit quantity) can be executed by the execute_trade that follows at the
\* same price: a derived buy quantity q has 1 <= q <= floor(cash/price) and
\* q * price <= cash, a derived sell quantity q has 1 <= q <= shares, and the
\* trade succeeds; the quantity of a buy or sell intention is 0, and there is
\* no trade, exactly when floor(cash/price) is 0 or shares is 0.
C25_DerivedExecutable == [][C25_Formed /\ C25_Executed]_vars

\* an agent with cash for one share whose derived buy of one share was executed
C25_Witness ==
    /\ call.op = "execute_trade"
    /\ C25_Derived(call.arg.intention)
    /\ call.arg.intention.action = "buy"
    /\ call.arg.intention.quantity = 1
    /\ call.result # None
    /\ agents[1].cash = 0
    /\ agents[1].shares = 100

====
